---- MODULE Spec2Model ----
(***************************************************************************)
(* Verification model of the SOC agent system backend:                     *)
(*   - CoordinatorAgent.analyze_threat (fan-out to five agents, join,      *)
(*     trust scoring, response planning, timeline, synthesis)              *)
(*   - InMemoryStore / RedisStore (save, get, list, count, subscribe)      *)
(*   - the trigger_threat request handler that runs a pass and saves it    *)
(* Numbers with a fractional part in the source are kept as integers in    *)
(* thousandths (0.35 -> 350); timestamps are milliseconds.                 *)
(* Record fields are written in the order TLC keeps them in, which is not  *)
(* always the order of the source's field declarations.                    *)
(***************************************************************************)
EXTENDS Integers, Sequences, FiniteSets, TLC

(***************************************************************************)
(* Bounds of the model                                                     *)
(***************************************************************************)
\* number of trigger requests (passes) that may run concurrently
NumPasses == 2
\* capacity of the store (max_threats) used by the model
MaxThreats == 1

Passes == 1..NumPasses

None == [kind |-> "none"]

Min(a, b) == IF a <= b THEN a ELSE b
Max(a, b) == IF a >= b THEN a ELSE b

RECURSIVE SumSeq(_)
SumSeq(s) == IF s = <<>> THEN 0 ELSE Head(s) + SumSeq(Tail(s))

RECURSIVE FlattenSeq(_)
FlattenSeq(ss) == IF ss = <<>> THEN <<>> ELSE Head(ss) \o FlattenSeq(Tail(ss))

Take(s, n) == SubSeq(s, 1, Min(n, Len(s)))

SelectCount(s, Test(_)) == Len(SelectSeq(s, Test))

(***************************************************************************)
(* Agents (agents/base_agent.py, agents/coordinator.py)                    *)
(***************************************************************************)
\* the order of the names zipped with the gather results
AgentOrder == <<"historical", "config", "devops", "context", "priority">>

AgentNames == {AgentOrder[i] : i \in 1..Len(AgentOrder)}

\* BaseAgent.name of each specialised agent
AgentDisplayName(a) ==
    CASE a = "historical" -> "Historical Agent"
      [] a = "config" -> "Config Agent"
      [] a = "devops" -> "DevOps Agent"
      [] a = "context" -> "Context Agent"
      [] a = "priority" -> "Priority Agent"

\* what the reasoning backend can answer to one request of agent a: a JSON
\* object with the fields of the contract, an error raised by the client, or
\* a body that does not parse / validate.  Only the priority agent's text is
\* read again (severity, review), so only its text varies.
BackendResponses(a) ==
    [kind : {"json"},
     analysis : IF a = "priority" THEN {"plain", "critical", "high review"} ELSE {"plain"},
     confidence : {500, 900}]
    \cup {[kind |-> "error"], [kind |-> "malformed"]}

\* BaseAgent.analyze: the try block builds the AgentAnalysis from the parsed
\* response; every exception inside it yields the failure analysis
BaseAgentAnalyze(a, response) ==
    IF response.kind = "json"
    THEN [kind |-> "analysis",
          analysis |-> response.analysis,
          confidence |-> response.confidence,
          agent_name |-> AgentDisplayName(a),
          key_findings |-> <<"finding">>,
          recommendations |-> <<"recommendation">>]
    ELSE [kind |-> "analysis",
          analysis |-> "Analysis failed",
          confidence |-> 0,
          agent_name |-> AgentDisplayName(a),
          key_findings |-> <<"Error during analysis">>,
          recommendations |-> <<"Manual review required">>]

\* BaseAgent.analyze_mock
BaseAgentAnalyzeMock(a) ==
    [kind |-> "analysis",
     analysis |-> "Mock analysis",
     confidence |-> 850,
     agent_name |-> AgentDisplayName(a),
     key_findings |-> <<"Mock finding">>,
     recommendations |-> <<"Mock recommendation">>]

\* the exception object asyncio.gather hands back for a call that raised
RaisedException == [kind |-> "exception", message |-> "boom"]

\* a coordinator that keeps a default confidence for a call that raised
ProcessResultDefaultConfidence(name, result) ==
    IF result.kind = "exception"
    THEN [kind |-> "analysis",
          analysis |-> "Agent failed",
          confidence |-> 500,
          agent_name |-> name,
          key_findings |-> <<"Error">>,
          recommendations |-> <<"Manual review required">>]
    ELSE result

\* coordinator.py 136-147: one entry of agent_analyses from one gather result
ProcessResult(name, result) ==
    IF result.kind = "exception"
    THEN [kind |-> "analysis",
          analysis |-> "Agent failed",
          confidence |-> 0,
          agent_name |-> name,
          key_findings |-> <<"Error">>,
          recommendations |-> <<"Manual review required">>]
    ELSE result

(***************************************************************************)
(* Events (models.py ThreatSignal, threat_generator.py)                    *)
(***************************************************************************)
ThreatTypes ==
    {"bot_traffic", "proxy_network", "device_compromise",
     "anomaly_detection", "rate_limit_breach", "geo_anomaly"}

Severities == {"LOW", "MEDIUM", "HIGH", "CRITICAL", "INFO"}

\* the signals the passes of the model analyse: the bot_attack and the
\* critical_threat scenario of the generator and a crawler hit
Signals ==
    {[threat_type |-> "bot_traffic", customer_name |-> "RetailMax",
      user_agent |-> "Suspicious-Bot/1.0", source_ip |-> "203.0.113.9",
      request_count |-> 3500, time_window |-> 5, endpoint |-> "",
      timestamp |-> 0],
     [threat_type |-> "device_compromise", customer_name |-> "HealthCare Plus",
      user_agent |-> "curl/7.68.0", source_ip |-> "10.0.0.5",
      request_count |-> 0, time_window |-> 5, endpoint |-> "",
      timestamp |-> 0],
     [threat_type |-> "bot_traffic", customer_name |-> "Acme Corp",
      user_agent |-> "Googlebot/2.1", source_ip |-> "66.249.66.1",
      request_count |-> 20, time_window |-> 5, endpoint |-> "/health",
      timestamp |-> 0]}

\* "x in user_agent.lower()" over BENIGN_USER_AGENTS / suspicious_patterns,
\* for the user agents of the model
UserAgentClass(ua) ==
    CASE ua = "" -> "absent"
      [] ua \in {"Googlebot/2.1", "Pingdom.com_bot"} -> "benign"
      [] ua \in {"curl/7.68.0", "Python-requests/2.31.0"} -> "suspicious"
      [] OTHER -> "plain"

\* source_ip.startswith(prefix) for the addresses of the model
IpClass(ip) ==
    CASE ip \in {"66.249.66.1", "157.55.39.1"} -> "benign"
      [] ip \in {"10.0.0.5", "192.168.1.100"} -> "internal"
      [] OTHER -> "other"

\* MockDataStore.get_similar_incidents: at most five incidents, each with
\* the customer it was raised for and how it was resolved
SimilarIncidents(signal) ==
    IF signal.customer_name = "RetailMax"
    THEN <<[customer_name |-> "RetailMax", resolved_as |-> "inconclusive"],
           [customer_name |-> "Acme Corp", resolved_as |-> "inconclusive"]>>
    ELSE <<>>

\* MockDataStore.get_customer_config
CustomerConfig(signal) ==
    [customer_name |-> signal.customer_name,
     auto_block_enabled |-> FALSE,
     escalation_contacts |-> <<>>]

(***************************************************************************)
(* Trust scorer (analyzers/fp_analyzer.py)                                 *)
(***************************************************************************)
BASELINE_FP_RATES(t) ==
    CASE t = "bot_traffic" -> 350
      [] t = "proxy_network" -> 400
      [] t = "device_compromise" -> 100
      [] t = "anomaly_detection" -> 500
      [] t = "rate_limit_breach" -> 450
      [] t = "geo_anomaly" -> 550
      [] OTHER -> 300

Indicator(name, weight) == [weight |-> weight, indicator |-> name]

AnalyzeUserAgent(signal) ==
    CASE UserAgentClass(signal.user_agent) = "benign" ->
             <<Indicator("Known benign bot", 400)>>
      [] UserAgentClass(signal.user_agent) = "suspicious" ->
             <<Indicator("Suspicious user agent", -200)>>
      [] OTHER -> <<>>

AnalyzeIp(signal) ==
    IF IpClass(signal.source_ip) = "benign"
    THEN <<Indicator("Known benign IP range", 500)>>
    ELSE <<>>

\* rpm = request_count / max(time_window, 1), compared without dividing
AnalyzeRequestVolume(signal) ==
    LET w == Max(signal.time_window, 1) IN
    CASE signal.request_count < 10 * w ->
             <<Indicator("Low request volume", 200)>>
      [] signal.request_count > 1000 * w ->
             <<Indicator("Extremely high request volume", -300)>>
      [] OTHER -> <<>>

IsFalsePositive(inc) == inc.resolved_as = "false_positive"

IsTruePositive(inc) == inc.resolved_as = "true_positive"

\* fp_rate > 0.5 and fp_rate < 0.2 as 2*fp > total and 5*fp < total
AnalyzeHistoricalPatterns(signal, similar) ==
    LET fp == SelectCount(similar, IsFalsePositive)
        total == Len(similar)
        SameCustomer(inc) == inc.customer_name = signal.customer_name
        mine == SelectSeq(similar, SameCustomer)
        rate == CASE total > 0 /\ 2 * fp > total ->
                         <<Indicator("High historical FP rate", 300)>>
                  [] total > 0 /\ 5 * fp < total ->
                         <<Indicator("Low historical FP rate", -300)>>
                  [] OTHER -> <<>>
        recurring == IF Len(mine) >= 3 /\ SelectCount(mine, IsFalsePositive) >= 2
                     THEN <<Indicator("Recurring FP pattern for customer", 250)>>
                     ELSE <<>>
    IN IF total = 0 THEN <<>> ELSE rate \o recurring

\* the average of the confidences against 0.5 and 0.85, compared as sums
AnalyzeAgentConfidence(analyses) ==
    LET names == DOMAIN analyses
        n == Cardinality(names)
        total == SumSeq([i \in 1..Len(AgentOrder) |->
                           IF AgentOrder[i] \in names
                           THEN analyses[AgentOrder[i]].confidence ELSE 0])
    IN CASE n = 0 -> <<>>
         [] total < 500 * n -> <<Indicator("Low agent confidence", 200)>>
         [] total > 850 * n -> <<Indicator("High agent confidence", -200)>>
         [] OTHER -> <<>>

CheckBenignPatterns(signal) ==
    CASE signal.endpoint \in {"/health", "/ping", "/status", "/ready"} ->
             <<Indicator("Health check endpoint", 400)>>
      [] IpClass(signal.source_ip) = "internal" ->
             <<Indicator("Internal IP address", 300)>>
      [] OTHER -> <<>>

\* round(x, 3) of a fraction held in millionths, as thousandths; the built-in
\* rounds an exact half to the even neighbour
Round3(x) ==
    LET q == x \div 1000
        r == x % 1000
    IN IF r > 500 \/ (r = 500 /\ q % 2 = 1) THEN q + 1 ELSE q

\* a labelling whose upper threshold leaves out 0.7 itself
RecommendationAboveOnly(final_score) ==
    CASE final_score > 700000 -> "likely_false_positive"
      [] final_score >= 400000 -> "needs_review"
      [] OTHER -> "likely_real_threat"

\* the label, from the clamped score before it is rounded (in millionths)
Recommendation(final_score) ==
    CASE final_score >= 700000 -> "likely_false_positive"
      [] final_score >= 400000 -> "needs_review"
      [] OTHER -> "likely_real_threat"

\* baseline + total_weight * 0.3, clamped, in millionths (baseline and
\* weights are held in thousandths); the label is taken from that value and
\* the score and the confidence are rounded to three places afterwards
CalculateScore(signal, indicators, similar) ==
    LET total_weight == SumSeq([i \in 1..Len(indicators) |-> indicators[i].weight])
        adjusted == BASELINE_FP_RATES(signal.threat_type) * 1000 + total_weight * 300
        final_score == Max(0, Min(1000000, adjusted))
        confidence == Min(1000000,
                          500000
                          + (IF Len(similar) > 0 THEN Min(300000, Len(similar) * 50000) ELSE 0)
                          + (IF Len(indicators) > 0 THEN Min(200000, Len(indicators) * 40000) ELSE 0))
    IN [kind |-> "fp_score",
        confidence |-> Round3(confidence),
        indicators |-> indicators,
        score |-> Round3(final_score),
        historical_fp_rate |-> BASELINE_FP_RATES(signal.threat_type),
        similar_resolved_as_fp |-> SelectCount(similar, IsFalsePositive),
        similar_resolved_as_real |-> SelectCount(similar, IsTruePositive),
        recommendation |-> Recommendation(final_score)]

\* FalsePositiveAnalyzer.analyze
FpAnalyze(signal, analyses, similar) ==
    CalculateScore(signal,
                   AnalyzeUserAgent(signal) \o AnalyzeIp(signal)
                   \o AnalyzeRequestVolume(signal)
                   \o AnalyzeHistoricalPatterns(signal, similar)
                   \o AnalyzeAgentConfidence(analyses)
                   \o CheckBenignPatterns(signal),
                   similar)

(***************************************************************************)
(* Severity (coordinator.py _extract_severity)                             *)
(***************************************************************************)
\* the texts a priority analysis may carry in the model
PriorityTexts ==
    {"plain", "critical", "high review", "low", "critical high low", "high low",
     "CRITICAL: data exfiltration", "Highly unusual", "below threshold"}

\* "word in analysis.lower()" for the analysis texts of the model: the test
\* is on substrings and ignores case
Mentions(analysis, word) ==
    CASE word = "critical" ->
             analysis \in {"critical", "critical high low", "CRITICAL: data exfiltration"}
      [] word = "high" ->
             analysis \in {"high review", "critical high low", "high low", "Highly unusual"}
      [] word = "low" ->
             analysis \in {"low", "critical high low", "high low", "below threshold"}
      [] word = "review" -> analysis \in {"high review"}
      [] OTHER -> FALSE

\* a lookup that tests the keyword "high" before the keyword "critical"
ExtractSeverityHighFirst(priority_analysis) ==
    CASE priority_analysis = None \/ priority_analysis.confidence = 0 -> "MEDIUM"
      [] Mentions(priority_analysis.analysis, "high") -> "HIGH"
      [] Mentions(priority_analysis.analysis, "critical") -> "CRITICAL"
      [] Mentions(priority_analysis.analysis, "low") -> "LOW"
      [] OTHER -> "MEDIUM"

ExtractSeverity(priority_analysis) ==
    CASE priority_analysis = None \/ priority_analysis.confidence = 0 -> "MEDIUM"
      [] Mentions(priority_analysis.analysis, "critical") -> "CRITICAL"
      [] Mentions(priority_analysis.analysis, "high") -> "HIGH"
      [] Mentions(priority_analysis.analysis, "low") -> "LOW"
      [] OTHER -> "MEDIUM"

\* coordinator.py 159-160: agent_analyses.get("priority"), then the lookup
\* when there is such an entry and MEDIUM when there is none
DetermineSeverity(analyses) ==
    IF "priority" \in DOMAIN analyses
    THEN ExtractSeverity(analyses["priority"])
    ELSE "MEDIUM"

(***************************************************************************)
(* Action planner (analyzers/response_engine.py)                           *)
(***************************************************************************)
\* RESPONSE_TEMPLATES.get(threat_type, {}).get(severity, [(MONITOR, NORMAL)])
ResponseTemplates(t, sev) ==
    CASE t = "bot_traffic" /\ sev = "CRITICAL" ->
             <<<<"block_ip", "immediate">>, <<"rate_limit", "immediate">>>>
      [] t = "bot_traffic" /\ sev = "HIGH" ->
             <<<<"rate_limit", "urgent">>, <<"challenge", "urgent">>>>
      [] t = "bot_traffic" /\ sev = "MEDIUM" ->
             <<<<"challenge", "normal">>, <<"monitor", "normal">>>>
      [] t = "bot_traffic" /\ sev = "LOW" -> <<<<"monitor", "low">>>>
      [] t = "proxy_network" /\ sev = "CRITICAL" ->
             <<<<"block_ip", "immediate">>, <<"escalate", "immediate">>>>
      [] t = "proxy_network" /\ sev = "HIGH" ->
             <<<<"block_ip", "urgent">>, <<"challenge", "urgent">>>>
      [] t = "proxy_network" /\ sev = "MEDIUM" ->
             <<<<"challenge", "normal">>, <<"rate_limit", "normal">>>>
      [] t = "proxy_network" /\ sev = "LOW" -> <<<<"monitor", "normal">>>>
      [] t = "device_compromise" /\ sev = "CRITICAL" ->
             <<<<"quarantine", "immediate">>, <<"escalate", "immediate">>,
               <<"block_ip", "immediate">>>>
      [] t = "device_compromise" /\ sev = "HIGH" ->
             <<<<"quarantine", "urgent">>, <<"challenge", "urgent">>>>
      [] t = "device_compromise" /\ sev = "MEDIUM" ->
             <<<<"challenge", "normal">>, <<"monitor", "normal">>>>
      [] t = "device_compromise" /\ sev = "LOW" -> <<<<"monitor", "low">>>>
      [] t = "rate_limit_breach" /\ sev = "CRITICAL" ->
             <<<<"rate_limit", "immediate">>, <<"block_ip", "urgent">>>>
      [] t = "rate_limit_breach" /\ sev = "HIGH" -> <<<<"rate_limit", "urgent">>>>
      [] t = "rate_limit_breach" /\ sev = "MEDIUM" -> <<<<"rate_limit", "normal">>>>
      [] t = "rate_limit_breach" /\ sev = "LOW" -> <<<<"monitor", "low">>>>
      [] t = "geo_anomaly" /\ sev = "CRITICAL" ->
             <<<<"challenge", "immediate">>, <<"escalate", "urgent">>>>
      [] t = "geo_anomaly" /\ sev = "HIGH" -> <<<<"challenge", "urgent">>>>
      [] t = "geo_anomaly" /\ sev = "MEDIUM" -> <<<<"challenge", "normal">>>>
      [] t = "geo_anomaly" /\ sev = "LOW" -> <<<<"monitor", "low">>>>
      [] OTHER -> <<<<"monitor", "normal">>>>

\* action_configs[action_type]["auto_exec"]
ActionAutoExec(action_type) == action_type \in {"rate_limit", "challenge", "monitor", "escalate"}

ActionTarget(action_type, signal) ==
    IF action_type \in {"block_ip", "rate_limit", "challenge", "monitor"}
    THEN signal.source_ip
    ELSE signal.customer_name

BuildAction(action_type, urgency, signal, severity) ==
    [confidence |-> IF severity \in {"CRITICAL", "HIGH"} THEN 800 ELSE 600,
     action_type |-> action_type,
     urgency |-> urgency,
     target |-> ActionTarget(action_type, signal),
     auto_executable |-> ActionAutoExec(action_type),
     requires_approval |-> ~ActionAutoExec(action_type)]

\* an auto_block_enabled pass that leaves requires_approval as it was built
ApplyAutoBlockKeepsApproval(action, config) ==
    IF config # None /\ config.auto_block_enabled /\ action.action_type = "block_ip"
    THEN [action EXCEPT !.auto_executable = TRUE]
    ELSE action

\* the auto_block_enabled pass over the built actions
ApplyAutoBlock(action, config) ==
    IF config # None /\ config.auto_block_enabled /\ action.action_type = "block_ip"
    THEN [action EXCEPT !.auto_executable = TRUE, !.requires_approval = FALSE]
    ELSE action

BuildEscalationPath(severity, config) ==
    (CASE severity = "CRITICAL" ->
              <<"SOC Tier 2", "SOC Manager", "CISO", "Customer Success">>
       [] severity = "HIGH" -> <<"SOC Tier 2", "SOC Manager", "Customer Success">>
       [] severity = "MEDIUM" -> <<"SOC Tier 1", "SOC Tier 2">>
       [] OTHER -> <<"SOC Tier 1">>)
    \o (IF config # None THEN Take(config.escalation_contacts, 2) ELSE <<>>)

SLA_TIMES(severity) ==
    CASE severity = "CRITICAL" -> 15
      [] severity = "HIGH" -> 30
      [] severity = "MEDIUM" -> 60
      [] severity = "LOW" -> 240
      [] severity = "INFO" -> 480
      [] OTHER -> 60

\* a minimal plan that keeps the normal urgency
GenerateFpResponsePlanNormalUrgency(signal, fp_score) ==
    [kind |-> "plan",
     primary_action |->
         [confidence |-> fp_score.confidence, action_type |-> "monitor",
          urgency |-> "normal", target |-> signal.source_ip,
          auto_executable |-> TRUE, requires_approval |-> FALSE],
     secondary_actions |-> <<>>,
     escalation_path |-> <<"SOC Tier 1">>,
     sla_minutes |-> 240,
     auto_escalate_after_minutes |-> 120]

GenerateFpResponsePlan(signal, fp_score) ==
    [kind |-> "plan",
     primary_action |->
         [confidence |-> fp_score.confidence, action_type |-> "monitor",
          urgency |-> "low", target |-> signal.source_ip,
          auto_executable |-> TRUE, requires_approval |-> FALSE],
     secondary_actions |-> <<>>,
     escalation_path |-> <<"SOC Tier 1">>,
     sla_minutes |-> 240,
     auto_escalate_after_minutes |-> 120]

GenerateResponsePlan(signal, severity, fp_score, config) ==
    IF fp_score # None /\ fp_score.score >= 700
    THEN GenerateFpResponsePlan(signal, fp_score)
    ELSE LET templates == ResponseTemplates(signal.threat_type, severity)
             actions == [i \in 1..Len(templates) |->
                            ApplyAutoBlock(BuildAction(templates[i][1], templates[i][2],
                                                       signal, severity), config)]
         IN [kind |-> "plan",
             primary_action |-> actions[1],
             secondary_actions |-> Tail(actions),
             escalation_path |-> BuildEscalationPath(severity, config),
             sla_minutes |-> SLA_TIMES(severity),
             auto_escalate_after_minutes |-> SLA_TIMES(severity) \div 2]

(***************************************************************************)
(* Narrative builder (analyzers/timeline_builder.py)                       *)
(***************************************************************************)
\* a TimelineEvent: detail is the text and value the number its data bag
\* carries (value 0 when it carries none); severity is "" when not set
TimelineEvent(ts, type, title, detail, value, sev) ==
    [timestamp |-> ts, severity |-> sev, title |-> title,
     detail |-> detail, value |-> value, event_type |-> type]

\* a builder that returns the milestones in the order it appended them
AppendOrder(events) == events

\* sorted(events, key=timestamp): stable insertion by timestamp
RECURSIVE SortByTimestamp(_)
SortByTimestamp(events) ==
    IF events = <<>> THEN <<>>
    ELSE LET rest == SortByTimestamp(SubSeq(events, 1, Len(events) - 1))
             e == events[Len(events)]
             NotAfter(x) == x.timestamp <= e.timestamp
             After(x) == x.timestamp > e.timestamp
         IN SelectSeq(rest, NotAfter) \o <<e>> \o SelectSeq(rest, After)

\* the jitter random.randint(0, 50) draws for each agent's milestone
Jitters == {[a \in AgentNames |-> 0],
            [a \in AgentNames |-> IF a = "historical" THEN 50 ELSE 20]}

\* TimelineBuilder.__init__: no milestones, start_time None (written -1)
NewBuilder == [events |-> <<>>, start_time |-> -1]

\* a builder that keeps the milestones of the call before
KeptEvents(events) == events

\* build_timeline 46: self.events = []
ResetEvents(events) == <<>>

\* build_timeline 46-71: the fields of the builder once every group of
\* milestones has been appended
AppendMilestones(builder, signal, analyses, fp_score, plan, sev, jitter) ==
    LET t0 == signal.timestamp
        detection ==
            <<TimelineEvent(t0, "detection", "Threat Detected", signal.source_ip,
                            signal.request_count, "INFO")>>
        enrichment ==
            <<TimelineEvent(t0 + 50, "enrichment", "Historical Data Retrieved",
                            "similar_incidents", 0, ""),
              TimelineEvent(t0 + 70, "enrichment", "Customer Configuration Loaded",
                            signal.customer_name, 0, ""),
              TimelineEvent(t0 + 85, "enrichment", "Infrastructure Events Retrieved",
                            "60 minutes", 0, ""),
              TimelineEvent(t0 + 100, "enrichment", "Threat Intelligence Gathered",
                            signal.threat_type, 0, "")>>
        present == SelectSeq(AgentOrder, LAMBDA a : a \in DOMAIN analyses)
        agents == [i \in 1..Len(present) |->
                      TimelineEvent(t0 + 100 + jitter[present[i]], "analysis",
                                    "Agent Analysis", present[i],
                                    analyses[present[i]].confidence, "")]
        fp == IF fp_score # None
              THEN <<TimelineEvent(t0 + 800, "analysis", "False Positive Analysis",
                                   fp_score.recommendation, fp_score.score, "")>>
              ELSE <<>>
        correlation ==
            <<TimelineEvent(t0 + 900, "correlation", "Cross-Agent Correlation",
                            "agents_count", Len(present), ""),
              TimelineEvent(t0 + 950, "correlation", "Pattern Matching Complete",
                            signal.threat_type, 0, "")>>
        decision ==
            <<TimelineEvent(t0 + 1000, "decision", "Severity Determination", sev,
                            IF fp_score # None THEN fp_score.score ELSE -1, sev)>>
        response ==
            IF plan = None THEN <<>>
            ELSE <<TimelineEvent(t0 + 1100, "action", "Primary Action",
                                 plan.primary_action.action_type, 0, "")>>
                 \o [i \in 1..Len(plan.secondary_actions) |->
                        TimelineEvent(t0 + 1100 + 20 * i, "action", "Secondary Action",
                                      plan.secondary_actions[i].action_type, 0, "")]
                 \o (IF plan.escalation_path # <<>>
                     THEN <<TimelineEvent(t0 + 1200, "escalation", "Escalation Path Defined",
                                          plan.escalation_path[1], plan.sla_minutes, "")>>
                     ELSE <<>>)
    IN [events |-> ResetEvents(builder.events) \o detection \o enrichment \o agents
                   \o fp \o correlation \o decision \o response,
        start_time |-> t0]

\* build_timeline 73-81: the timeline returned from the fields of the builder
ReturnedTimeline(builder) ==
    [kind |-> "timeline",
     events |-> SortByTimestamp(builder.events),
     start_time |-> builder.start_time]

\* build_timeline called on a builder
BuildTimelineOn(builder, signal, analyses, fp_score, plan, sev, jitter) ==
    ReturnedTimeline(AppendMilestones(builder, signal, analyses, fp_score, plan, sev, jitter))

\* build_timeline called on a builder of its own
BuildTimeline(signal, analyses, fp_score, plan, sev, jitter) ==
    BuildTimelineOn(NewBuilder, signal, analyses, fp_score, plan, sev, jitter)

(***************************************************************************)
(* Synthesis (coordinator.py _synthesize_analysis)                         *)
(***************************************************************************)
\* review_reason = None
NoReason == "none"

\* a synthesis that gives no reason for a critical verdict
ReviewReasonNoneForCritical(severity, fp_score) ==
    CASE severity = "CRITICAL" -> NoReason
      [] fp_score # None /\ fp_score.score >= 400 /\ fp_score.score <= 700 ->
             "Uncertain false positive classification"
      [] OTHER -> "Agent recommendation for manual review"

ReviewReason(severity, fp_score) ==
    CASE severity = "CRITICAL" -> "Critical severity threat requires human oversight"
      [] fp_score # None /\ fp_score.score >= 400 /\ fp_score.score <= 700 ->
             "Uncertain false positive classification"
      [] OTHER -> "Agent recommendation for manual review"

SynthesizeAnalysis(id, signal, analyses, severity, fp_score, plan, timeline, now) ==
    LET priority == IF "priority" \in DOMAIN analyses THEN analyses["priority"] ELSE None
        confident == priority # None /\ priority.confidence > 0
        requires_review == confident /\ (Mentions(priority.analysis, "review")
                                         \/ severity = "CRITICAL")
        present == SelectSeq(AgentOrder, LAMBDA a : a \in DOMAIN analyses)
        findings == FlattenSeq([i \in 1..Len(present) |-> analyses[present[i]].key_findings])
    IN [kind |-> "threat_analysis",
        signal |-> signal,
        severity |-> severity,
        id |-> id,
        status |-> "completed",
        executive_summary |-> Take(findings, 5),
        agent_analyses |-> analyses,
        false_positive_score |-> fp_score,
        response_plan |-> plan,
        investigation_timeline |-> timeline,
        created_at |-> now,
        requires_human_review |-> requires_review,
        review_reason |-> IF requires_review THEN ReviewReason(severity, fp_score) ELSE NoReason]

(***************************************************************************)
(* JSON round trip (pydantic model_dump_json / model_validate_json)        *)
(***************************************************************************)
\* datetime -> ISO-8601 text and back
IsoFormat(ts) == <<"iso8601", ts>>

FromIso(text) == text[2]

\* Optional[...] fields are written as null when absent
DumpOptional(x) == IF x = None THEN <<"null">> ELSE <<"value", x>>

LoadOptional(j) == IF j[1] = "null" THEN None ELSE j[2]

\* ThreatAnalysis.model_dump_json: every field, by name
ModelDumpJson(t) ==
    [json_id |-> t.id,
     json_signal |-> [t.signal EXCEPT !.timestamp = IsoFormat(t.signal.timestamp)],
     json_status |-> t.status,
     json_severity |-> t.severity,
     json_executive_summary |-> t.executive_summary,
     json_agent_analyses |-> t.agent_analyses,
     json_false_positive_score |-> DumpOptional(t.false_positive_score),
     json_response_plan |-> DumpOptional(t.response_plan),
     json_investigation_timeline |-> DumpOptional(t.investigation_timeline),
     json_created_at |-> IsoFormat(t.created_at),
     json_requires_human_review |-> t.requires_human_review,
     json_review_reason |-> t.review_reason]

\* a parser that drops the optional trust verdict
ModelValidateJsonWithoutFpScore(j) ==
    [kind |-> "threat_analysis",
     signal |-> [j.json_signal EXCEPT !.timestamp = FromIso(j.json_signal.timestamp)],
     severity |-> j.json_severity,
     id |-> j.json_id,
     status |-> j.json_status,
     executive_summary |-> j.json_executive_summary,
     agent_analyses |-> j.json_agent_analyses,
     false_positive_score |-> None,
     response_plan |-> LoadOptional(j.json_response_plan),
     investigation_timeline |-> LoadOptional(j.json_investigation_timeline),
     created_at |-> FromIso(j.json_created_at),
     requires_human_review |-> j.json_requires_human_review,
     review_reason |-> j.json_review_reason]

\* ThreatAnalysis.model_validate_json
ModelValidateJson(j) ==
    [kind |-> "threat_analysis",
     signal |-> [j.json_signal EXCEPT !.timestamp = FromIso(j.json_signal.timestamp)],
     severity |-> j.json_severity,
     id |-> j.json_id,
     status |-> j.json_status,
     executive_summary |-> j.json_executive_summary,
     agent_analyses |-> j.json_agent_analyses,
     false_positive_score |-> LoadOptional(j.json_false_positive_score),
     response_plan |-> LoadOptional(j.json_response_plan),
     investigation_timeline |-> LoadOptional(j.json_investigation_timeline),
     created_at |-> FromIso(j.json_created_at),
     requires_human_review |-> j.json_requires_human_review,
     review_reason |-> j.json_review_reason]

(***************************************************************************)
(* State                                                                   *)
(***************************************************************************)
VARIABLES
    use_mock,        \* CoordinatorAgent.use_mock
    timeline_builder, \* the fields of CoordinatorAgent.timeline_builder
    pc,              \* where each pass is
    signal,          \* the event of each pass
    task,            \* the five gathered calls of each pass
    results,         \* what gather collected for each call
    agent_analyses,  \* coordinator.py local agent_analyses
    customer_config, \* local customer_config
    fp_score,        \* local fp_score
    severity,        \* local severity
    response_plan,   \* local response_plan
    timeline,        \* local timeline
    analysis,        \* what analyze_threat returned to the handler
    now,             \* wall clock (datetime.utcnow)
    store_kind,      \* which ThreatStore create_store returned
    max_threats,     \* self.max_threats of the store create_store built
    threats,         \* InMemoryStore.threats
    total_count,     \* InMemoryStore.total_count
    subscribers,     \* InMemoryStore.subscribers / the connections subscribed to threats:events
    queue,           \* the asyncio.Queue (or pub/sub connection buffer) of each subscriber
    received,        \* what each subscriber's generator has yielded
    sub_state,       \* where each subscriber's generator is
    r_total,         \* Redis key threats:total_count
    r_threat,        \* Redis keys threat:{id}
    r_index,         \* Redis sorted set threats:by_created
    saver,           \* the RedisStore.save_threat calls in progress
    last_op,         \* the store call that completed last, with its result
    ws,              \* where each websocket_endpoint handler is, and its initial batch
    lifespan_pc,     \* where main.py lifespan is
    probe,           \* how the connection test of create_store went
    health_coordinator, \* health.py _coordinator
    health_store,    \* health.py _store
    broker_up,       \* whether the Redis server answers right now
    ready_response   \* what the last call of the /ready handler returned

pass_vars ==
    <<use_mock, timeline_builder, customer_config, pc, signal, task, results, agent_analyses, fp_score, severity,
      response_plan, timeline, analysis, now>>

mem_vars == <<max_threats, threats, total_count>>

sub_vars == <<subscribers, queue, received, sub_state>>

redis_vars == <<r_total, r_threat, r_index, saver>>

boot_vars ==
    <<lifespan_pc, probe, health_coordinator, health_store, broker_up, ready_response>>

env_vars == <<ws, boot_vars>>

vars == <<pass_vars, store_kind, mem_vars, sub_vars, redis_vars, last_op, env_vars>>

(***************************************************************************)
(* Initial states                                                          *)
(***************************************************************************)
\* the observers that may connect
NumSubscribers == 3

Subscribers == 1..NumSubscribers

\* the concurrent callers of RedisStore.save_threat
NumSavers == 2

Savers == 1..NumSavers

\* how many saves the store-level specifications issue
MaxSaves == 2

IdleTasks == [a \in AgentNames |-> "idle"]

NoResults == [a \in AgentNames |-> None]

IdleSaver == [total |-> 0, pc |-> "idle", threat |-> None]

\* the record kept of the store call that completed last
Op(op, id, threat, result, items, count, saved_before) ==
    [result |-> result, id |-> id, threat |-> threat, op |-> op,
     items |-> items, count |-> count, saved_before |-> saved_before]

NoOp == Op("none", 0, None, None, <<>>, 0, None)

InitPasses ==
    /\ timeline_builder = NewBuilder
    /\ customer_config = [p \in Passes |-> None]
    /\ pc = [p \in Passes |-> "idle"]
    /\ signal = [p \in Passes |-> None]
    /\ task = [p \in Passes |-> IdleTasks]
    /\ results = [p \in Passes |-> NoResults]
    /\ agent_analyses = [p \in Passes |-> None]
    /\ fp_score = [p \in Passes |-> None]
    /\ severity = [p \in Passes |-> ""]
    /\ response_plan = [p \in Passes |-> None]
    /\ timeline = [p \in Passes |-> None]
    /\ analysis = [p \in Passes |-> None]
    /\ now = 1

\* InMemoryStore.__init__ and a RedisStore on an empty database
InitStore ==
    /\ max_threats = MaxThreats
    /\ threats = <<>>
    /\ total_count = 0
    /\ subscribers = <<>>
    /\ queue = [s \in Subscribers |-> <<>>]
    /\ received = [s \in Subscribers |-> <<>>]
    /\ sub_state = [s \in Subscribers |-> "new"]
    /\ r_total = 0
    /\ r_threat = [i \in {} |-> None]
    /\ r_index = [i \in {} |-> 0]
    /\ saver = [c \in Savers |-> IdleSaver]
    /\ last_op = NoOp

\* a websocket_endpoint handler that has not been entered
IdleSocket == [pc |-> "closed", batch |-> <<>>]

\* the process once lifespan has yielded: store and coordinator created and
\* registered with health.py, no /ready call answered yet, no observer
\* connected
InitServing ==
    /\ ws = [s \in Subscribers |-> IdleSocket]
    /\ lifespan_pc = "serving"
    /\ probe = "none"
    /\ health_coordinator = TRUE
    /\ health_store = TRUE
    /\ broker_up = TRUE
    /\ ready_response = None

(***************************************************************************)
(* One pass: CoordinatorAgent.analyze_threat                               *)
(***************************************************************************)
Settled(p) == \A a \in AgentNames : task[p][a] \in {"returned", "raised"}

\* coordinator.py 59-125 up to the await: contexts are built and gather
\* starts the five calls together
StartPass(p, sig) ==
    /\ pc[p] = "idle"
    /\ pc' = [pc EXCEPT ![p] = "gather"]
    /\ signal' = [signal EXCEPT ![p] = sig]
    /\ task' = [task EXCEPT ![p] = [a \in AgentNames |-> "running"]]
    /\ UNCHANGED <<use_mock, timeline_builder, customer_config,
                   results, agent_analyses, fp_score, severity,
                   response_plan, timeline, analysis, now>>

\* what a call that came back leaves in another call of the same gather
SiblingAfter(status) == status

\* one gathered call ends, with a value or with an exception; the other
\* calls of the gather are left as they are (return_exceptions=True)
SettleTask(p, a, status, result) ==
    /\ task' = [task EXCEPT ![p] = [b \in AgentNames |->
                    IF b = a THEN status ELSE SiblingAfter(task[p][b])]]
    /\ results' = [results EXCEPT ![p][a] = result]
    /\ UNCHANGED <<use_mock, timeline_builder, customer_config,
                   pc, signal, agent_analyses, fp_score, severity,
                   response_plan, timeline, analysis, now>>

\* _log_agent_execution around BaseAgent.analyze: the backend answered (or
\* failed inside the try block) and analyze returned an AgentAnalysis
AgentReturn(p, a) ==
    /\ pc[p] = "gather" /\ task[p][a] = "running" /\ ~use_mock
    /\ \E response \in BackendResponses(a) :
           SettleTask(p, a, "returned", BaseAgentAnalyze(a, response))

\* the calls dispatched before call a, in the order gather started them
DispatchedBefore(a) ==
    LET i == CHOOSE j \in 1..Len(AgentOrder) : AgentOrder[j] = a
    IN {AgentOrder[j] : j \in 1..(i - 1)}

\* _log_agent_execution around BaseAgent.analyze_mock: every mock call sleeps
\* the same 0.1 s from its start, so the calls of a pass come back in the
\* order they were started
AgentMockReturn(p, a) ==
    /\ pc[p] = "gather" /\ task[p][a] = "running" /\ use_mock
    /\ \A b \in DispatchedBefore(a) : task[p][b] = "returned"
    /\ SettleTask(p, a, "returned", BaseAgentAnalyzeMock(a))

\* the call raised outside analyze's try block; _log_agent_execution logs and
\* re-raises, gather keeps the exception as the call's result
AgentRaise(p, a) ==
    /\ pc[p] = "gather" /\ task[p][a] = "running" /\ ~use_mock
    /\ SettleTask(p, a, "raised", RaisedException)

\* the backend never answers this call: client.chat.completions.create is
\* awaited without a timeout (settings.llm_timeout is never read)
AgentHang(p, a) ==
    /\ pc[p] = "gather" /\ task[p][a] = "running" /\ ~use_mock
    /\ task' = [task EXCEPT ![p][a] = "hung"]
    /\ UNCHANGED <<use_mock, timeline_builder, customer_config,
                   pc, signal, results, agent_analyses, fp_score,
                   severity, response_plan, timeline, analysis, now>>

\* gather without return_exceptions: the await ends with the first failure
GatherDoneOnFirstFailure(p) ==
    \/ \A a \in AgentNames : task[p][a] \in {"returned", "raised"}
    \/ \E a \in AgentNames : task[p][a] = "raised"

\* whether the await of gather (coordinator.py 93-125) is over
GatherDone(p) == Settled(p)

\* gather that leaves the calls that raised out of its result list
GatherResultsWithoutFailures(p) ==
    SelectSeq([i \in 1..Len(AgentOrder) |-> results[p][AgentOrder[i]]],
              LAMBDA r : r.kind # "exception")

\* the synthesis stage analyze_threat runs first (coordinator.py 152)
FirstStage == "fp_analyzer"

\* the list the await of gather evaluates to: one entry per call, in call
\* order, a raised exception kept as the entry (return_exceptions=True)
GatherResults(p) == [i \in 1..Len(AgentOrder) |-> results[p][AgentOrder[i]]]

\* coordinator.py 130-147: zip(agent_names, results) filled into agent_analyses
ZipAnalyses(names, res) ==
    LET n == Min(Len(names), Len(res))
    IN [a \in {names[i] : i \in 1..n} |->
           LET i == CHOOSE j \in 1..n : names[j] = a
           IN ProcessResult(a, res[i])]

\* coordinator.py 127-147: the pass resumes after gather and the results
\* become agent_analyses
ProcessResults(p) ==
    /\ pc[p] = "gather" /\ GatherDone(p)
    /\ agent_analyses' = [agent_analyses EXCEPT ![p] =
           ZipAnalyses(AgentOrder, GatherResults(p))]
    /\ pc' = [pc EXCEPT ![p] = FirstStage]
    /\ UNCHANGED <<use_mock, timeline_builder, customer_config,
                   signal, task, results, fp_score, severity,
                   response_plan, timeline, analysis, now>>

\* a coordinator that plans before it scores
StageOrderPlannerFirst(stage) ==
    CASE stage = "fp_analyzer" -> "timeline_builder"
      [] stage = "response_engine" -> "fp_analyzer"
      [] stage = "timeline_builder" -> "synthesize"
      [] stage = "synthesize" -> "analysed"

\* the stage that follows each synthesis stage of analyze_threat
NextStage(stage) ==
    CASE stage = "fp_analyzer" -> "response_engine"
      [] stage = "response_engine" -> "timeline_builder"
      [] stage = "timeline_builder" -> "synthesize"
      [] stage = "synthesize" -> "analysed"

\* coordinator.py 152-156
RunFpAnalyzer(p) ==
    /\ pc[p] = "fp_analyzer"
    /\ fp_score' = [fp_score EXCEPT ![p] =
           FpAnalyze(signal[p], agent_analyses[p], SimilarIncidents(signal[p]))]
    /\ pc' = [pc EXCEPT ![p] = NextStage("fp_analyzer")]
    /\ UNCHANGED <<use_mock, timeline_builder, customer_config,
                   signal, task, results, agent_analyses, severity,
                   response_plan, timeline, analysis, now>>

\* the trust verdict handed to generate_response_plan
PlannerFpArgument(p) == fp_score[p]

\* coordinator.py 158-168
RunResponseEngine(p) ==
    /\ pc[p] = "response_engine"
    /\ LET sev == DetermineSeverity(agent_analyses[p]) IN
       /\ severity' = [severity EXCEPT ![p] = sev]
       /\ customer_config' = [customer_config EXCEPT ![p] = CustomerConfig(signal[p])]
       /\ response_plan' = [response_plan EXCEPT ![p] =
              GenerateResponsePlan(signal[p], sev, PlannerFpArgument(p),
                                   CustomerConfig(signal[p]))]
    /\ pc' = [pc EXCEPT ![p] = NextStage("response_engine")]
    /\ UNCHANGED <<use_mock, timeline_builder, signal, task, results, agent_analyses,
                   fp_score, timeline, analysis, now>>

\* coordinator.py 170-175
RunTimelineBuilder(p) ==
    /\ pc[p] = "timeline_builder"
    /\ \E jitter \in Jitters :
           /\ timeline_builder' =
                  AppendMilestones(timeline_builder, signal[p], agent_analyses[p],
                                   fp_score[p], response_plan[p], severity[p], jitter)
           /\ timeline' = [timeline EXCEPT ![p] = ReturnedTimeline(timeline_builder')]
    /\ pc' = [pc EXCEPT ![p] = NextStage("timeline_builder")]
    /\ UNCHANGED <<use_mock, customer_config, signal, task, results, agent_analyses,
                   fp_score, severity, response_plan, analysis, now>>

\* coordinator.py 177-196: the verdict is assembled and returned
Synthesize(p) ==
    /\ pc[p] = "synthesize"
    /\ analysis' = [analysis EXCEPT ![p] =
           SynthesizeAnalysis(p, signal[p], agent_analyses[p], severity[p],
                              fp_score[p], response_plan[p], timeline[p], now)]
    /\ now' = now + 1
    /\ pc' = [pc EXCEPT ![p] = NextStage("synthesize")]
    /\ UNCHANGED <<use_mock, timeline_builder, customer_config,
                   signal, task, results, agent_analyses, fp_score,
                   severity, response_plan, timeline>>

(***************************************************************************)
(* InMemoryStore (store.py 47-102)                                         *)
(***************************************************************************)
store_vars == <<store_kind, mem_vars, sub_vars, redis_vars, last_op>>

\* a list that never drops its oldest entry
InsertUnbounded(list, threat) == <<threat>> \o list

\* a list that takes no new entry once it holds max_threats
InsertUnlessFull(list, threat) ==
    IF Len(list) >= max_threats THEN list ELSE <<threat>> \o list

\* a list that, once over max_threats, drops its front entry
InsertPopFront(list, threat) ==
    LET inserted == <<threat>> \o list
    IN IF Len(inserted) > max_threats THEN Tail(inserted) ELSE inserted

\* list.insert(0, threat), then pop() when the list is over max_threats
InsertBounded(list, threat) ==
    LET inserted == <<threat>> \o list
    IN IF Len(inserted) > max_threats
       THEN SubSeq(inserted, 1, Len(inserted) - 1)
       ELSE inserted

\* a save that stops notifying after the first registered subscriber
NotifiedFirstOnly(subs) == IF subs = <<>> THEN {} ELSE {subs[1]}

\* the queues save_threat puts the threat on: every queue of self.subscribers
NotifiedSubscribers(subs) == {subs[i] : i \in 1..Len(subs)}

\* a save that does not count
CountNotIncremented(count) == count

\* the count after one more save
CountAfterSave(count) == count + 1

\* asyncio.Queue(): maxsize 0, no limit on the items held
QueueMaxSize == 0

\* a subscriber queue that holds one item at most
QueueFullAtOne(q) == Len(q) >= 1

\* asyncio.Queue.full(): whether a put on q would have to wait for a get
QueueFull(q) == QueueMaxSize > 0 /\ Len(q) >= QueueMaxSize

\* InMemoryStore.save_threat; queue.put suspends only on a full queue, which
\* an unbounded asyncio.Queue never is, so the whole call is one step of the
\* event loop
InMemorySaveThreat(threat) ==
    /\ \A s \in NotifiedSubscribers(subscribers) : ~QueueFull(queue[s])
    /\ total_count' = CountAfterSave(total_count)
    /\ threats' = InsertBounded(threats, threat)
    /\ max_threats' = max_threats
    /\ queue' = [s \in Subscribers |->
                    IF s \in NotifiedSubscribers(subscribers)
                    THEN Append(queue[s], threat) ELSE queue[s]]
    /\ last_op' = Op("save", threat.id, threat, None, <<>>, 0, None)
    /\ UNCHANGED <<subscribers, received, sub_state, store_kind, redis_vars>>

\* InMemoryStore.get_threat: the first entry with the id, scanning from the front
InMemoryGetThreat(id) ==
    LET hits == SelectSeq(threats, LAMBDA t : t.id = id)
    IN IF hits = <<>> THEN None ELSE Head(hits)

\* InMemoryStore.get_threats: self.threats[offset:offset + limit]
InMemoryGetThreats(limit, offset) ==
    IF offset >= Len(threats) THEN <<>>
    ELSE SubSeq(threats, offset + 1, Min(offset + limit, Len(threats)))

\* InMemoryStore.get_total_count
InMemoryGetTotalCount == total_count

(***************************************************************************)
(* The handlers that run a pass and save it (main.py)                      *)
(***************************************************************************)
\* trigger_threat 253-271 / background_threat_generator 121-122: a signal is
\* generated and analyze_threat is called
TriggerThreat(p) ==
    /\ \E sig \in Signals : StartPass(p, sig)
    /\ UNCHANGED <<store_vars, env_vars>>

\* trigger_threat 262-266: an unknown threat_type ends the request with 400
RejectRequest(p) ==
    /\ pc[p] = "idle"
    /\ pc' = [pc EXCEPT ![p] = "failed"]
    /\ UNCHANGED <<use_mock, timeline_builder, customer_config,
                   signal, task, results, agent_analyses, fp_score,
                   severity, response_plan, timeline, analysis, now>>
    /\ UNCHANGED <<store_vars, env_vars>>

\* the task running the pass is cancelled while it awaits gather (lifespan
\* 78-82 cancels the generator task; its handler 128-129 leaves the loop):
\* the calls still running are cancelled with it, the working data of the
\* pass is dropped with its frame and nothing is saved
CancelPass(p) ==
    /\ pc[p] = "gather"
    /\ pc' = [pc EXCEPT ![p] = "failed"]
    /\ signal' = [signal EXCEPT ![p] = None]
    /\ task' = [task EXCEPT ![p] = [a \in AgentNames |-> "cancelled"]]
    /\ results' = [results EXCEPT ![p] = NoResults]
    /\ UNCHANGED <<use_mock, timeline_builder, customer_config,
                   agent_analyses, fp_score, severity, response_plan,
                   timeline, analysis, now>>
    /\ UNCHANGED <<store_vars, env_vars>>

\* a handler that may save again after it has saved
MaySaveAgain(p) == pc[p] \in {"analysed", "saved"}

\* whether the handler may call save_threat for pass p
MaySave(p) == pc[p] = "analysed"

\* trigger_threat 273-276 / background_threat_generator 124-125 on the
\* in-process store: the returned analysis is saved, then the handler returns
SaveAnalysis(p) ==
    /\ MaySave(p)
    /\ store_kind = "memory"
    /\ InMemorySaveThreat(analysis[p])
    /\ pc' = [pc EXCEPT ![p] = "saved"]
    /\ UNCHANGED <<use_mock, timeline_builder, customer_config,
                   signal, task, results, agent_analyses, fp_score,
                   severity, response_plan, timeline, analysis, now>>
    /\ UNCHANGED env_vars

(***************************************************************************)
(* Subscriptions (subscribe_threats of both stores, consumed by            *)
(* main.py send_threats)                                                   *)
(***************************************************************************)
\* a removal that takes the first registered queue, whoever owns it
RemoveFirstRegistered(subs, s) == IF subs = <<>> THEN subs ELSE Tail(subs)

\* self.subscribers.remove(queue), if queue in self.subscribers
RemoveFrom(subs, s) == SelectSeq(subs, LAMBDA x : x # s)

\* the generator runs up to its first wait: the queue (or the pub/sub
\* connection) is created and registered
Subscribe(s) ==
    /\ sub_state[s] = "new"
    /\ subscribers' = Append(subscribers, s)
    /\ sub_state' = [sub_state EXCEPT ![s] = "waiting"]
    /\ UNCHANGED <<queue, received, store_kind, mem_vars, redis_vars, last_op>>
    /\ UNCHANGED <<pass_vars, env_vars>>

\* what the generator yields for one queued item: the object itself from the
\* in-process queue, the parsed JSON text from the pub/sub message
Decode(item) == IF store_kind = "redis" THEN ModelValidateJson(item) ELSE item

\* a queue that hands out its newest item first
QueueGetNewest(q) == q[Len(q)]

\* the item queue.get() / pubsub.listen() returns: the oldest one
QueueGet(q) == Head(q)

\* queue.get() / pubsub.listen() returns the oldest item and the generator
\* yields it to send_threats
Deliver(s) ==
    /\ sub_state[s] = "waiting"
    /\ queue[s] # <<>>
    /\ received' = [received EXCEPT ![s] = Append(received[s], Decode(QueueGet(queue[s])))]
    /\ queue' = [queue EXCEPT ![s] = Tail(queue[s])]
    /\ UNCHANGED <<subscribers, sub_state, store_kind, mem_vars, redis_vars, last_op>>
    /\ UNCHANGED <<pass_vars, env_vars>>

\* the consumer goes away (threat_task.cancel(), main.py 327-333): the
\* finally block of the generator removes its own queue only; a generator
\* that never started has nothing to remove
Unsubscribe(s) ==
    /\ sub_state[s] \in {"new", "waiting"}
    /\ subscribers' = RemoveFrom(subscribers, s)
    /\ sub_state' = [sub_state EXCEPT ![s] = "closed"]
    /\ UNCHANGED <<queue, received, store_kind, mem_vars, redis_vars, last_op>>
    /\ UNCHANGED <<pass_vars, env_vars>>

(***************************************************************************)
(* RedisStore (store.py 105-231)                                           *)
(***************************************************************************)
\* SET key value / ZADD key {member: score}: add or overwrite one entry
Put(f, k, v) == [i \in DOMAIN f \cup {k} |-> IF i = k THEN v ELSE f[i]]

\* rank of a member of a sorted set: ascending by score, ties by member
Rank(index, m) ==
    Cardinality({n \in DOMAIN index :
                    \/ index[n] < index[m]
                    \/ index[n] = index[m] /\ n < m})

\* ZCARD
ZCard(index) == Cardinality(DOMAIN index)

\* ZREMRANGEBYRANK key lo hi
ZRemRangeByRank(index, lo, hi) ==
    LET kept == {m \in DOMAIN index : ~(lo <= Rank(index, m) /\ Rank(index, m) <= hi)}
    IN [m \in kept |-> index[m]]

\* ZREVRANGE key start stop: members from the highest rank down
ZRevRange(index, start, stop) ==
    LET n == ZCard(index)
        last == Min(stop, n - 1)
    IN IF start > last THEN <<>>
       ELSE [i \in 1..(last - start + 1) |->
                CHOOSE m \in DOMAIN index : Rank(index, m) = n - 1 - (start + i - 1)]

\* the verdicts the store-level specifications save: produced by the mock
\* pipeline for a signal, under an id and a creation time
MockVerdict(id, sig, t) ==
    LET analyses == [a \in AgentNames |-> BaseAgentAnalyzeMock(a)]
        fp == FpAnalyze(sig, analyses, SimilarIncidents(sig))
        sev == ExtractSeverity(analyses["priority"])
        plan == GenerateResponsePlan(sig, sev, fp, CustomerConfig(sig))
        tl == BuildTimeline(sig, analyses, fp, plan, sev, [a \in AgentNames |-> 0])
    IN SynthesizeAnalysis(id, sig, analyses, sev, fp, plan, tl, t)

\* how many different ids the saved verdicts carry
NumIds == 2

VerdictIds == 1..NumIds

SignalAt(t) ==
    CHOOSE sig \in Signals :
        IF t = 1 THEN sig.customer_name = "RetailMax"
        ELSE sig.customer_name = "Acme Corp"

StoreVerdicts == {MockVerdict(id, SignalAt(t), t) : id \in VerdictIds, t \in 1..2}

\* ids are uuid4 values made with the verdict: a verdict is saved again under
\* its id only after the earlier save of that id has returned
IdInFlight(id) ==
    \E c \in Savers : saver[c].pc # "idle" /\ saver[c].threat.id = id

\* save_threat 126-131: the call begins with INCR threats:total_count (an
\* absent key counts as 0)
RedisIncr(c, threat) ==
    /\ store_kind = "redis"
    /\ saver[c].pc = "idle"
    /\ ~IdInFlight(threat.id)
    /\ r_total < MaxSaves
    /\ r_total' = r_total + 1
    /\ saver' = [saver EXCEPT ![c] = [total |-> 0, pc |-> "set", threat |-> threat]]
    /\ last_op' = Op("save_started", threat.id, threat, None, <<>>, 0, None)
    /\ UNCHANGED <<r_threat, r_index, store_kind, mem_vars, sub_vars>>
    /\ UNCHANGED <<pass_vars, env_vars>>

\* save_threat 133-139: SET threat:{id} model_dump_json()
RedisSet(c) ==
    /\ saver[c].pc = "set"
    /\ r_threat' = Put(r_threat, saver[c].threat.id, ModelDumpJson(saver[c].threat))
    /\ saver' = [saver EXCEPT ![c].pc = "zadd"]
    /\ UNCHANGED <<r_total, r_index, store_kind, mem_vars, sub_vars, last_op>>
    /\ UNCHANGED <<pass_vars, env_vars>>

\* save_threat 141-142: ZADD threats:by_created {id: created_at.timestamp()}
RedisZAdd(c) ==
    /\ saver[c].pc = "zadd"
    /\ r_index' = Put(r_index, saver[c].threat.id, saver[c].threat.created_at)
    /\ saver' = [saver EXCEPT ![c].pc = "zcard"]
    /\ UNCHANGED <<r_total, r_threat, store_kind, mem_vars, sub_vars, last_op>>
    /\ UNCHANGED <<pass_vars, env_vars>>

\* save_threat 144-146: total = ZCARD threats:by_created
RedisZCard(c) ==
    /\ saver[c].pc = "zcard"
    /\ LET total == ZCard(r_index) IN
       saver' = [saver EXCEPT ![c].total = total,
                              ![c].pc = IF total > max_threats THEN "trim" ELSE "publish"]
    /\ UNCHANGED <<r_total, r_threat, r_index, store_kind, mem_vars, sub_vars, last_op>>
    /\ UNCHANGED <<pass_vars, env_vars>>

\* save_threat 146-148: ZREMRANGEBYRANK threats:by_created 0 total-max-1
RedisTrim(c) ==
    /\ saver[c].pc = "trim"
    /\ r_index' = ZRemRangeByRank(r_index, 0, saver[c].total - max_threats - 1)
    /\ saver' = [saver EXCEPT ![c].pc = "publish"]
    /\ UNCHANGED <<r_total, r_threat, store_kind, mem_vars, sub_vars, last_op>>
    /\ UNCHANGED <<pass_vars, env_vars>>

\* the replicas (pods) of the service behind one Redis server
NumReplicas == 2

\* the replica that runs caller or observer n
Replica(n) == ((n - 1) % NumReplicas) + 1

\* a broker that hands a message only to the publisher's own replica
ReceiversOnPublisherReplica(c, subs) ==
    {s \in {subs[i] : i \in 1..Len(subs)} : Replica(s) = Replica(c)}

\* the connections the server hands a message published by caller c to: every
\* connection subscribed to threats:events, whichever replica opened it
ChannelReceivers(c, subs) == NotifiedSubscribers(subs)

\* save_threat 150-151: PUBLISH threats:events json; the server hands the
\* message to every connection subscribed to the channel, and save returns
RedisPublish(c) ==
    /\ saver[c].pc = "publish"
    /\ queue' = [s \in Subscribers |->
                    IF s \in ChannelReceivers(c, subscribers)
                    THEN Append(queue[s], ModelDumpJson(saver[c].threat))
                    ELSE queue[s]]
    /\ last_op' = Op("save", saver[c].threat.id, saver[c].threat, None, <<>>, 0, None)
    /\ saver' = [saver EXCEPT ![c] = IdleSaver]
    /\ UNCHANGED <<subscribers, received, sub_state, r_total, r_threat, r_index,
                   store_kind, mem_vars>>
    /\ UNCHANGED <<pass_vars, env_vars>>

\* a command after INCR raises (connection lost): save_threat has no handler,
\* the exception leaves the call where it is
RedisCommandFails(c) ==
    /\ saver[c].pc \in {"set", "zadd", "zcard", "trim", "publish"}
    /\ saver' = [saver EXCEPT ![c] = IdleSaver]
    /\ last_op' = Op("save_failed", saver[c].threat.id, saver[c].threat, None, <<>>, 0, None)
    /\ UNCHANGED <<r_total, r_threat, r_index, store_kind, mem_vars, sub_vars>>
    /\ UNCHANGED <<pass_vars, env_vars>>

\* RedisStore.get_threat
RedisGetThreat(id) ==
    IF id \in DOMAIN r_threat THEN ModelValidateJson(r_threat[id]) ELSE None

\* RedisStore.get_threats: ZREVRANGE, then GET of every id; a missing key is skipped
RedisGetThreats(limit, offset) ==
    LET ids == ZRevRange(r_index, offset, offset + limit - 1)
        found == SelectSeq(ids, LAMBDA id : id \in DOMAIN r_threat)
    IN [i \in 1..Len(found) |-> ModelValidateJson(r_threat[found[i]])]

\* RedisStore.get_total_count: int(count) if count else 0
RedisGetTotalCount == r_total

(***************************************************************************)
(* The ThreatStore interface as its callers see it                         *)
(***************************************************************************)
\* the default limit of get_threats, larger than anything the model stores
DefaultLimit == 100

GetThreatResult(id) ==
    IF store_kind = "redis" THEN RedisGetThreat(id) ELSE InMemoryGetThreat(id)

GetThreatsResult(limit, offset) ==
    IF store_kind = "redis" THEN RedisGetThreats(limit, offset)
    ELSE InMemoryGetThreats(limit, offset)

GetTotalCountResult ==
    IF store_kind = "redis" THEN RedisGetTotalCount ELSE InMemoryGetTotalCount

\* a caller saves a verdict on the in-process store
SaveThreat(threat) ==
    /\ store_kind = "memory"
    /\ total_count < MaxSaves
    /\ InMemorySaveThreat(threat)
    /\ UNCHANGED <<pass_vars, env_vars>>

\* the verdict whose save was the last call to complete, if any
JustSaved == IF last_op.op = "save" THEN last_op.threat ELSE None

\* a caller reads a verdict back by id once a save has returned
GetThreat(id) ==
    /\ last_op.op = "save"
    /\ last_op' = Op("get", id, None, GetThreatResult(id), <<>>, 0, JustSaved)
    /\ UNCHANGED <<store_kind, mem_vars, sub_vars, redis_vars>>
    /\ UNCHANGED <<pass_vars, env_vars>>

(***************************************************************************)
(* The trust scorer and the planner called on their own                    *)
(***************************************************************************)
\* the longest run of false positives, and of true positives, in a history
MaxHistory == 3

\* FalsePositiveAnalyzer.analyze on an event of category t with the given
\* user agent, source address, request count (over five minutes) and
\* endpoint, analyzer results all of confidence c, and a history of nfp
\* false positives followed by ntp true positives raised for customer
ScoreEvent(t, ua, ip, rc, ep, c, nfp, ntp, customer) ==
    LET sig == [threat_type |-> t, customer_name |-> "Acme Corp",
                user_agent |-> ua, source_ip |-> ip, request_count |-> rc,
                time_window |-> 5, endpoint |-> ep, timestamp |-> 0]
        analyses == [a \in AgentNames |->
                        [BaseAgentAnalyzeMock(a) EXCEPT !.confidence = c]]
        similar == [i \in 1..(nfp + ntp) |->
                       [customer_name |-> customer,
                        resolved_as |-> IF i <= nfp THEN "false_positive"
                                        ELSE "true_positive"]]
    IN /\ pc[1] = "idle"
       /\ signal' = [signal EXCEPT ![1] = sig]
       /\ agent_analyses' = [agent_analyses EXCEPT ![1] = analyses]
       /\ fp_score' = [fp_score EXCEPT ![1] = FpAnalyze(sig, analyses, similar)]
       /\ pc' = [pc EXCEPT ![1] = "scored"]
       /\ UNCHANGED <<use_mock, timeline_builder, customer_config,
                      task, results, severity, response_plan, timeline,
                      analysis, now>>
       /\ UNCHANGED <<store_vars, env_vars>>

\* the customer_config a pass may hand to the planner for a tenant: none
\* (contexts['config'] has no entry), or the tenant's record with automatic
\* blocking off or on
TenantPolicies(customer) ==
    {None} \cup {[customer_name |-> customer,
                  auto_block_enabled |-> auto_block,
                  escalation_contacts |-> <<>>] : auto_block \in BOOLEAN}

\* ResponseActionEngine.generate_response_plan on the scored event, for a
\* severity and a tenant policy
PlanEvent(sev, config) ==
    /\ pc[1] = "scored"
    /\ severity' = [severity EXCEPT ![1] = sev]
    /\ customer_config' = [customer_config EXCEPT ![1] = config]
    /\ response_plan' =
           [response_plan EXCEPT ![1] =
               GenerateResponsePlan(signal[1], sev, fp_score[1], config)]
    /\ pc' = [pc EXCEPT ![1] = "planned"]
    /\ UNCHANGED <<use_mock, timeline_builder, signal, task, results, agent_analyses,
                   fp_score, timeline, analysis, now>>
    /\ UNCHANGED <<store_vars, env_vars>>

\* the severity step of a pass on a set of analyzer results: the analyzers
\* in present have an entry, the priority entry (when there is one) carries
\* the given text and confidence, the others are as the mock returns them
RateEvent(present, text, conf) ==
    LET analyses == [a \in present |->
                        IF a = "priority"
                        THEN [BaseAgentAnalyzeMock(a) EXCEPT !.analysis = text,
                                                             !.confidence = conf]
                        ELSE BaseAgentAnalyzeMock(a)]
    IN /\ pc[1] = "idle"
       /\ agent_analyses' = [agent_analyses EXCEPT ![1] = analyses]
       /\ severity' = [severity EXCEPT ![1] = DetermineSeverity(analyses)]
       /\ pc' = [pc EXCEPT ![1] = "rated"]
       /\ UNCHANGED <<use_mock, timeline_builder, customer_config,
                      signal, task, results, fp_score, response_plan,
                      timeline, analysis, now>>
       /\ UNCHANGED <<store_vars, env_vars>>

\* the largest number of secondary actions of a plan handed to the builder
MaxSecondary == 5

\* TimelineBuilder.build_timeline on the results of the first k analyzers,
\* with the given jitter of their milestones, with or without a trust
\* verdict, and with no plan or a plan of nsec secondary actions
NarrateEvent(k, jitter, with_fp, with_plan, nsec) ==
    LET sig == SignalAt(1)
        present == {AgentOrder[i] : i \in 1..k}
        analyses == [a \in present |-> BaseAgentAnalyzeMock(a)]
        fp == IF with_fp
              THEN FpAnalyze(sig, [a \in AgentNames |-> BaseAgentAnalyzeMock(a)], <<>>)
              ELSE None
        plan == IF with_plan
                THEN [kind |-> "plan",
                      primary_action |-> BuildAction("rate_limit", "urgent", sig, "HIGH"),
                      secondary_actions |->
                          [i \in 1..nsec |-> BuildAction("monitor", "normal", sig, "HIGH")],
                      escalation_path |-> BuildEscalationPath("HIGH", None),
                      sla_minutes |-> SLA_TIMES("HIGH"),
                      auto_escalate_after_minutes |-> SLA_TIMES("HIGH") \div 2]
                ELSE None
    IN /\ pc[1] = "idle"
       /\ signal' = [signal EXCEPT ![1] = sig]
       /\ agent_analyses' = [agent_analyses EXCEPT ![1] = analyses]
       /\ fp_score' = [fp_score EXCEPT ![1] = fp]
       /\ response_plan' = [response_plan EXCEPT ![1] = plan]
       /\ severity' = [severity EXCEPT ![1] = "HIGH"]
       /\ timeline_builder' =
              AppendMilestones(timeline_builder, sig, analyses, fp, plan, "HIGH", jitter)
       /\ timeline' = [timeline EXCEPT ![1] = ReturnedTimeline(timeline_builder')]
       /\ pc' = [pc EXCEPT ![1] = "narrated"]
       /\ UNCHANGED <<use_mock, customer_config, task, results, analysis, now>>
       /\ UNCHANGED <<store_vars, env_vars>>

(***************************************************************************)
(* The two variants side by side: one caller on one replica issues the     *)
(* same calls, one after the other, to an InMemoryStore and to a           *)
(* RedisStore on an empty database, both of capacity MaxThreats            *)
(***************************************************************************)
\* the k-th save: a verdict new from the pipeline (fresh id, created after
\* the ones before it) goes through InMemoryStore.save_threat and through
\* every command of RedisStore.save_threat; nobody is subscribed
TwinSave(sig) ==
    LET k == total_count + 1
        threat == MockVerdict(k, sig, k)
        added == Put(r_index, threat.id, threat.created_at)
        total == ZCard(added)
    IN /\ total_count < MaxSaves
       /\ subscribers = <<>>
       /\ total_count' = CountAfterSave(total_count)
       /\ threats' = InsertBounded(threats, threat)
       /\ max_threats' = max_threats
       /\ r_total' = r_total + 1
       /\ r_threat' = Put(r_threat, threat.id, ModelDumpJson(threat))
       /\ r_index' = IF total > max_threats
                     THEN ZRemRangeByRank(added, 0, total - max_threats - 1)
                     ELSE added
       /\ last_op' = Op("save", threat.id, threat, None, <<>>, 0, None)
       /\ UNCHANGED <<store_kind, sub_vars, saver>>
       /\ UNCHANGED <<pass_vars, env_vars>>

\* the same get_threat, get_threats or get_total_count call on both stores;
\* the two answers are kept side by side
TwinRead ==
    /\ \/ \E id \in 1..MaxSaves :
              last_op' = Op("twin_get", id, None,
                            [memory |-> InMemoryGetThreat(id), redis |-> RedisGetThreat(id)],
                            <<>>, 0, None)
       \/ \E limit \in {1, MaxThreats + 1, DefaultLimit}, offset \in {0, 1} :
              last_op' = Op("twin_list", 0, None,
                            [memory |-> InMemoryGetThreats(limit, offset),
                             redis |-> RedisGetThreats(limit, offset)],
                            <<limit, offset>>, 0, None)
       \/ last_op' = Op("twin_count", 0, None,
                        [memory |-> InMemoryGetTotalCount, redis |-> RedisGetTotalCount],
                        <<>>, 0, None)
    /\ UNCHANGED <<store_kind, mem_vars, sub_vars, redis_vars>>
    /\ UNCHANGED <<pass_vars, env_vars>>

(***************************************************************************)
(* Startup (main.py lifespan, store.py create_store) and readiness         *)
(* (health.py check_readiness behind the /ready handler)                   *)
(***************************************************************************)
\* how the connection test of create_store can go: everything answers, the
\* redis package cannot be imported, _ensure_connected raises, ping raises
ProbeOutcomes == {"ok", "import_error", "connect_error", "ping_error"}

\* a handler that catches only the errors of the connection attempt
CaughtConnectErrorOnly(outcome) == outcome = "connect_error"

\* whether create_store's handler (except Exception) catches the failure:
\* ImportError and the redis / socket / timeout errors are all Exceptions
Caught(outcome) == outcome \in {"import_error", "connect_error", "ping_error"}

\* what create_store returns for an outcome its handler deals with
CreatedStore(outcome) == IF outcome = "ok" THEN "redis" ELSE "memory"

\* lifespan enters await create_store(...): RedisStore(...), _ensure_connected
LifespanStart ==
    /\ lifespan_pc = "start"
    /\ lifespan_pc' = "probing"
    /\ UNCHANGED <<probe, health_coordinator, health_store, broker_up, ready_response>>
    /\ UNCHANGED <<pass_vars, store_vars, ws>>

\* the connection test ends. A success needs the server to answer. A handled
\* failure or a success returns a store, and lifespan goes on without another
\* await: set_store, create_coordinator, set_coordinator, yield. An unhandled
\* failure leaves create_store and lifespan as an exception.
CreateStore(outcome) ==
    /\ lifespan_pc = "probing"
    /\ outcome = "ok" => broker_up
    /\ probe' = outcome
    /\ IF outcome = "ok" \/ Caught(outcome)
       THEN /\ store_kind' = CreatedStore(outcome)
            /\ health_store' = TRUE
            /\ health_coordinator' = TRUE
            /\ lifespan_pc' = "serving"
       ELSE /\ lifespan_pc' = "failed"
            /\ UNCHANGED <<store_kind, health_store, health_coordinator>>
    /\ UNCHANGED <<broker_up, ready_response, ws>>
    /\ UNCHANGED <<pass_vars, mem_vars, sub_vars, redis_vars, last_op>>

\* the Redis server stops or starts answering
BrokerFlip ==
    /\ broker_up' = ~broker_up
    /\ UNCHANGED <<lifespan_pc, probe, health_coordinator, health_store, ready_response>>
    /\ UNCHANGED <<pass_vars, store_vars, ws>>

\* health.py check_readiness; loop_running is asyncio's loop.is_running() at
\* the call. The components of a registered coordinator are set by its
\* constructor, so they are ready whenever it is.
CheckReadiness(loop_running) ==
    LET redis == IF store_kind = "redis"
                 THEN (IF loop_running THEN "true"
                       ELSE IF broker_up THEN "true" ELSE "false")
                 ELSE "null"
        components == [agents |-> health_coordinator /\ health_store,
                       redis |-> IF health_coordinator /\ health_store THEN redis ELSE "false",
                       coordinator |-> health_coordinator,
                       store |-> health_coordinator /\ health_store,
                       analyzers |-> health_coordinator /\ health_store]
        all_ready == /\ components.coordinator /\ components.store
                     /\ components.redis \in {"null", "true"}
                     /\ components.agents /\ components.analyzers
    IN [kind |-> "readiness",
        status |-> IF all_ready THEN 200 ELSE 503,
        components |-> components]

\* main.py ready(): an async handler, so check_readiness runs inside the
\* running event loop
Ready ==
    /\ ready_response' = CheckReadiness(TRUE)
    /\ UNCHANGED <<lifespan_pc, probe, health_coordinator, health_store, broker_up>>
    /\ UNCHANGED <<pass_vars, store_vars, ws>>

(***************************************************************************)
(* The streaming endpoint (main.py websocket_endpoint)                     *)
(***************************************************************************)
\* get_threats(limit=20) of the initial batch
BatchLimit == 20

\* json.loads(t.model_dump_json()) for every verdict of the snapshot
DumpBatch(items) == [i \in 1..Len(items) |-> ModelDumpJson(items[i])]

\* await websocket.accept(): the observer is connected
WsAccept(s) ==
    /\ ws[s].pc = "closed"
    /\ sub_state[s] = "new"
    /\ ws' = [ws EXCEPT ![s] = [pc |-> "accepted", batch |-> <<>>]]
    /\ UNCHANGED <<pass_vars, store_vars, boot_vars>>

\* initial_threats = await threat_store.get_threats(limit=20): the snapshot
\* is read, and the handler goes on to send it
WsSnapshot(s) ==
    /\ ws[s].pc = "accepted"
    /\ ws' = [ws EXCEPT ![s] = [pc |-> "snapshot",
                                batch |-> DumpBatch(GetThreatsResult(BatchLimit, 0))]]
    /\ UNCHANGED <<pass_vars, store_vars, boot_vars>>

\* await websocket.send_json(initial batch) returns and
\* asyncio.create_task(send_threats()) is called; the task has not run yet
WsSendBatch(s) ==
    /\ ws[s].pc = "snapshot"
    /\ ws' = [ws EXCEPT ![s].pc = "streaming"]
    /\ UNCHANGED <<pass_vars, store_vars, boot_vars>>

\* the send_threats task runs for the first time: subscribe_threats
\* registers its queue (or its pub/sub connection)
StreamStart(s) ==
    /\ ws[s].pc = "streaming"
    /\ Subscribe(s)

\* send_threats forwards the next verdict of the subscription
StreamForward(s) ==
    /\ ws[s].pc = "streaming"
    /\ Deliver(s)

\* the client goes away: WebSocketDisconnect out of receive_json or send_json
WsDisconnect(s) ==
    /\ ws[s].pc \in {"accepted", "snapshot", "streaming"}
    /\ ws' = [ws EXCEPT ![s].pc = "disconnected"]
    /\ UNCHANGED <<pass_vars, store_vars, boot_vars>>

\* the finally blocks: the subscription task, if any, is cancelled
StreamStop(s) ==
    /\ ws[s].pc = "disconnected"
    /\ Unsubscribe(s)

(***************************************************************************)
(* Specifications                                                          *)
(***************************************************************************)
\* one pass of the coordinator against the reasoning backend or the mock
InitPass ==
    /\ InitPasses /\ InitStore /\ InitServing
    /\ use_mock \in BOOLEAN
    /\ store_kind = "memory"

NextPass ==
    \/ \E sig \in Signals : StartPass(1, sig) /\ UNCHANGED <<store_vars, env_vars>>
    \/ \E a \in AgentNames : AgentReturn(1, a) /\ UNCHANGED <<store_vars, env_vars>>
    \/ \E a \in AgentNames : AgentMockReturn(1, a) /\ UNCHANGED <<store_vars, env_vars>>
    \/ \E a \in AgentNames : AgentRaise(1, a) /\ UNCHANGED <<store_vars, env_vars>>
    \/ \E a \in AgentNames : AgentHang(1, a) /\ UNCHANGED <<store_vars, env_vars>>
    \/ ProcessResults(1) /\ UNCHANGED <<store_vars, env_vars>>
    \/ RunFpAnalyzer(1) /\ UNCHANGED <<store_vars, env_vars>>
    \/ RunResponseEngine(1) /\ UNCHANGED <<store_vars, env_vars>>
    \/ RunTimelineBuilder(1) /\ UNCHANGED <<store_vars, env_vars>>
    \/ Synthesize(1) /\ UNCHANGED <<store_vars, env_vars>>

SpecPass == InitPass /\ [][NextPass]_vars

\* the same, with every enabled step of the pass eventually taken
FairSpecPass == SpecPass /\ WF_vars(NextPass)

\* the observers connected while the handlers run
ServeObservers == {1}

\* concurrent trigger requests in mock mode on the in-process store
InitServe ==
    /\ InitPasses /\ InitStore /\ InitServing
    /\ use_mock = TRUE
    /\ store_kind = "memory"

NextServe ==
    \/ \E p \in Passes : TriggerThreat(p)
    \/ \E p \in Passes : RejectRequest(p)
    \/ \E p \in Passes : CancelPass(p)
    \/ \E p \in Passes, a \in AgentNames : AgentMockReturn(p, a) /\ UNCHANGED <<store_vars, env_vars>>
    \/ \E p \in Passes : ProcessResults(p) /\ UNCHANGED <<store_vars, env_vars>>
    \/ \E p \in Passes : RunFpAnalyzer(p) /\ UNCHANGED <<store_vars, env_vars>>
    \/ \E p \in Passes : RunResponseEngine(p) /\ UNCHANGED <<store_vars, env_vars>>
    \/ \E p \in Passes : RunTimelineBuilder(p) /\ UNCHANGED <<store_vars, env_vars>>
    \/ \E p \in Passes : Synthesize(p) /\ UNCHANGED <<store_vars, env_vars>>
    \/ \E p \in Passes : SaveAnalysis(p)
    \/ \E s \in ServeObservers : Subscribe(s)
    \/ \E s \in ServeObservers : Deliver(s)

SpecServe == InitServe /\ [][NextServe]_vars

\* the store interface under concurrent callers, either variant
InitStoreApi ==
    /\ InitPasses /\ InitStore /\ InitServing
    /\ use_mock = TRUE
    /\ store_kind \in {"memory", "redis"}

NextStore ==
    \/ \E v \in StoreVerdicts : SaveThreat(v)
    \/ \E c \in Savers, v \in StoreVerdicts : RedisIncr(c, v)
    \/ \E c \in Savers : RedisSet(c)
    \/ \E c \in Savers : RedisZAdd(c)
    \/ \E c \in Savers : RedisZCard(c)
    \/ \E c \in Savers : RedisTrim(c)
    \/ \E c \in Savers : RedisPublish(c)
    \/ \E c \in Savers : RedisCommandFails(c)
    \/ \E id \in VerdictIds : GetThreat(id)

SpecStore == InitStoreApi /\ [][NextStore]_vars

\* saves with observers coming and going, either variant
NextPubSub ==
    \/ \E v \in StoreVerdicts : SaveThreat(v)
    \/ \E v \in StoreVerdicts : RedisIncr(1, v)
    \/ RedisSet(1)
    \/ RedisZAdd(1)
    \/ RedisZCard(1)
    \/ RedisTrim(1)
    \/ RedisPublish(1)
    \/ \E s \in Subscribers : Subscribe(s)
    \/ \E s \in Subscribers : Deliver(s)
    \/ \E s \in Subscribers : Unsubscribe(s)

SpecPubSub == InitStoreApi /\ [][NextPubSub]_vars

\* the process from its start: nothing registered with health.py, no store
\* yet, the Redis server answering or not
InitBoot ==
    /\ InitPasses /\ InitStore
    /\ use_mock \in BOOLEAN
    /\ store_kind = "none"
    /\ ws = [s \in Subscribers |-> IdleSocket]
    /\ lifespan_pc = "start"
    /\ probe = "none"
    /\ health_coordinator = FALSE
    /\ health_store = FALSE
    /\ broker_up \in BOOLEAN
    /\ ready_response = None

\* startup, /ready calls at any time, the server coming and going, and saves
\* on the store that startup created (Redis commands succeed while the
\* server answers and raise while it does not)
NextBoot ==
    \/ LifespanStart
    \/ \E outcome \in ProbeOutcomes : CreateStore(outcome)
    \/ BrokerFlip
    \/ Ready
    \/ \E v \in StoreVerdicts : SaveThreat(v)
    \/ \E v \in StoreVerdicts : broker_up /\ RedisIncr(1, v)
    \/ broker_up /\ RedisSet(1)
    \/ broker_up /\ RedisZAdd(1)
    \/ broker_up /\ RedisZCard(1)
    \/ broker_up /\ RedisTrim(1)
    \/ broker_up /\ RedisPublish(1)
    \/ ~broker_up /\ RedisCommandFails(1)

SpecBoot == InitBoot /\ [][NextBoot]_vars

\* the trust scorer on every category, every mix of indicators and every
\* history up to MaxHistory resolutions of either kind
NextScore ==
    /\ pc[1] = "idle"
    /\ \E t \in ThreatTypes,
          ua \in {"", "Googlebot/2.1", "curl/7.68.0"},
          ip \in {"66.249.66.1", "10.0.0.5", "203.0.113.9"},
          rc \in {20, 500, 6000},
          ep \in {"", "/health"},
          c \in {300, 700, 900},
          nfp \in 0..MaxHistory, ntp \in 0..MaxHistory,
          customer \in {"Acme Corp", "RetailMax"} :
           ScoreEvent(t, ua, ip, rc, ep, c, nfp, ntp, customer)

SpecScore == InitServe /\ [][NextScore]_vars

\* the planner on scored events of every category, for every severity and
\* tenant policy
NextPlan ==
    \/ /\ pc[1] = "idle"
       /\ \E t \in ThreatTypes,
             ua \in {"", "Googlebot/2.1", "curl/7.68.0"},
             ip \in {"66.249.66.1", "10.0.0.5", "203.0.113.9"},
             ep \in {"", "/health"},
             nfp \in {0, MaxHistory} :
              ScoreEvent(t, ua, ip, 500, ep, 700, nfp, 0, "Acme Corp")
    \/ /\ pc[1] = "scored"
       /\ \E sev \in Severities, config \in TenantPolicies(signal[1].customer_name) :
              PlanEvent(sev, config)

SpecPlan == InitServe /\ [][NextPlan]_vars

\* the severity step on every text and confidence of the priority entry,
\* with every subset of the other analyzers present
NextRate ==
    /\ pc[1] = "idle"
    /\ \E present \in SUBSET AgentNames, text \in PriorityTexts,
          conf \in {0, 1, 500, 1000} :
           RateEvent(present, text, conf)

SpecRate == InitServe /\ [][NextRate]_vars

\* the builder on 0 to 5 analyzer results, every jitter of 0, 25 or 50 ms
\* per analyzer, with and without trust verdict and plan
NextNarrate ==
    /\ pc[1] = "idle"
    /\ \E k \in 0..Len(AgentOrder), jitter \in [AgentNames -> {0, 25, 50}],
          with_fp \in BOOLEAN, with_plan \in BOOLEAN, nsec \in 0..MaxSecondary :
           (with_plan \/ nsec = 0) /\ NarrateEvent(k, jitter, with_fp, with_plan, nsec)

SpecNarrate == InitServe /\ [][NextNarrate]_vars

\* the same calls issued to both variants
NextTwin ==
    \/ \E sig \in Signals : TwinSave(sig)
    \/ TwinRead

SpecTwin == InitServe /\ [][NextTwin]_vars

\* the in-process store on its own, built with any capacity, one caller
\* saving verdicts new from the pipeline; an observer registered before the
\* first save never reads its queue, which so keeps every verdict saved,
\* oldest first
MaxCapacity == 3

\* how many verdicts the caller saves
MaxFreshSaves == 4

FreshVerdicts ==
    {MockVerdict(id, SignalAt(t), t) : id \in 1..MaxFreshSaves, t \in 1..2}

InitMemory ==
    /\ InitPasses /\ InitServing
    /\ use_mock = TRUE
    /\ store_kind = "memory"
    /\ max_threats \in 1..MaxCapacity
    /\ threats = <<>>
    /\ total_count = 0
    /\ subscribers = <<1>>
    /\ queue = [s \in Subscribers |-> <<>>]
    /\ received = [s \in Subscribers |-> <<>>]
    /\ sub_state = [s \in Subscribers |-> IF s = 1 THEN "waiting" ELSE "new"]
    /\ r_total = 0
    /\ r_threat = [i \in {} |-> None]
    /\ r_index = [i \in {} |-> 0]
    /\ saver = [c \in Savers |-> IdleSaver]
    /\ last_op = NoOp

\* models.py ThreatAnalysis.id, default_factory uuid4: the verdict saved
\* carries an id no verdict saved before it had
SaveFresh(threat) ==
    /\ store_kind = "memory"
    /\ total_count < MaxFreshSaves
    /\ \A i \in 1..Len(queue[1]) : queue[1][i].id # threat.id
    /\ InMemorySaveThreat(threat)
    /\ UNCHANGED <<pass_vars, env_vars>>

NextMemory ==
    \/ \E v \in FreshVerdicts : SaveFresh(v)
    \/ \E id \in 1..MaxFreshSaves : GetThreat(id)

SpecMemory == InitMemory /\ [][NextMemory]_vars

\* the observers of the streaming endpoint
StreamObservers == {1, 2}

\* callers on every replica saving through one Redis server while observers
\* on different replicas subscribe
InitReplicas ==
    /\ InitPasses /\ InitStore /\ InitServing
    /\ use_mock = TRUE
    /\ store_kind = "redis"

NextReplicas ==
    \/ \E c \in Savers, v \in StoreVerdicts : RedisIncr(c, v)
    \/ \E c \in Savers : RedisSet(c)
    \/ \E c \in Savers : RedisZAdd(c)
    \/ \E c \in Savers : RedisZCard(c)
    \/ \E c \in Savers : RedisTrim(c)
    \/ \E c \in Savers : RedisPublish(c)
    \/ \E s \in StreamObservers : Subscribe(s)
    \/ \E s \in StreamObservers : Deliver(s)
    \/ \E s \in StreamObservers : Unsubscribe(s)

SpecReplicas == InitReplicas /\ [][NextReplicas]_vars

\* observers connecting to the streaming endpoint while verdicts are saved,
\* either variant
NextStream ==
    \/ \E v \in StoreVerdicts : SaveThreat(v)
    \/ \E v \in StoreVerdicts : RedisIncr(1, v)
    \/ RedisSet(1)
    \/ RedisZAdd(1)
    \/ RedisZCard(1)
    \/ RedisTrim(1)
    \/ RedisPublish(1)
    \/ \E s \in StreamObservers : WsAccept(s)
    \/ \E s \in StreamObservers : WsSnapshot(s)
    \/ \E s \in StreamObservers : WsSendBatch(s)
    \/ \E s \in StreamObservers : StreamStart(s)
    \/ \E s \in StreamObservers : StreamForward(s)
    \/ \E s \in StreamObservers : WsDisconnect(s)
    \/ \E s \in StreamObservers : StreamStop(s)

SpecStream == InitStoreApi /\ [][NextStream]_vars

(***************************************************************************)
(* Properties of one pass                                                  *)
(***************************************************************************)
\* the stages of a pass that come after the gather
AfterGather == {"fp_analyzer", "response_engine", "timeline_builder", "synthesize", "analysed"}

\* C1: for every event and every set of failing analyzers, once the pass is
\* past the gather its agent_analyses has exactly the five keys historical,
\* config, devops, context and priority, each holding an analysis (never a
\* raised exception, which would make the synthesis raise), and the verdict
\* the pass returns carries that same five-key map.
C1_FiveAnalyses ==
    \A p \in Passes :
        /\ pc[p] \in AfterGather =>
              /\ DOMAIN agent_analyses[p] = AgentNames
              /\ \A a \in AgentNames : agent_analyses[p][a].kind = "analysis"
        /\ pc[p] = "analysed" =>
              /\ analysis[p].kind = "threat_analysis"
              /\ DOMAIN analysis[p].agent_analyses =
                     {"historical", "config", "devops", "context", "priority"}
              /\ analysis[p].agent_analyses = agent_analyses[p]

C1_Witness ==
    /\ pc[1] = "analysed"
    /\ task[1]["historical"] = "raised"
    /\ task[1]["config"] = "returned" /\ results[1]["config"].confidence = 0
    /\ task[1]["priority"] = "returned" /\ results[1]["priority"].confidence > 0
    /\ Cardinality(DOMAIN analysis[1].agent_analyses) = 5

\* the key_findings of the two synthetic results: coordinator.py 144 and
\* base_agent.py 84
FailureFindings == {<<"Error">>, <<"Error during analysis">>}

C3_JoinBarrier ==
    /\ [](\A p \in Passes : pc[p] \in AfterGather => Settled(p))
    /\ [][\A p \in Passes : \A a \in AgentNames :
              (task[p][a] = "running" /\ task'[p][a] = "raised") =>
                  \A b \in AgentNames \ {a} :
                      /\ task'[p][b] = task[p][b]
                      /\ results'[p][b] = results[p][b]]_vars

C3_Witness ==
    /\ pc[1] = "fp_analyzer"
    /\ task[1]["historical"] = "raised"
    /\ \A a \in AgentNames \ {"historical"} : task[1][a] = "returned"
    /\ \A a \in AgentNames \ {"historical"} : results[1][a].confidence > 0

\* C4: a pass that has dispatched its five calls eventually returns its
\* verdict, also when a call never comes back (stated for the pass of
\* SpecPass under fair scheduling of its steps).
C4_PassEventuallyCompletes == (pc[1] = "gather") ~> (pc[1] = "analysed")

\* C5: the synthesis stages run in the order trust scorer, response planner,
\* timeline builder, each after the previous one has produced its output:
\* while the scorer is due nothing downstream exists, while the planner is
\* due the trust verdict exists and no timeline does, while the builder is
\* due both the trust verdict and the plan exist.  The plan is the planner's
\* output for the scorer's verdict, and the timeline is the builder's output
\* for that verdict and that plan.
C5_StageOrder ==
    \A p \in Passes :
        /\ pc[p] = "fp_analyzer" =>
               fp_score[p] = None /\ response_plan[p] = None /\ timeline[p] = None
        /\ pc[p] = "response_engine" =>
               fp_score[p] # None /\ response_plan[p] = None /\ timeline[p] = None
        /\ pc[p] = "timeline_builder" =>
               fp_score[p] # None /\ response_plan[p] # None /\ timeline[p] = None
        /\ pc[p] \in {"synthesize", "analysed"} =>
               fp_score[p] # None /\ response_plan[p] # None /\ timeline[p] # None
        /\ response_plan[p] # None =>
               response_plan[p] =
                   GenerateResponsePlan(signal[p],
                                        ExtractSeverity(agent_analyses[p]["priority"]),
                                        fp_score[p], CustomerConfig(signal[p]))
        /\ timeline[p] # None =>
               \E jitter \in Jitters :
                   timeline[p] = BuildTimeline(signal[p], agent_analyses[p], fp_score[p],
                                               response_plan[p], severity[p], jitter)

C5_Witness ==
    /\ pc[1] = "analysed"
    /\ fp_score[1].score >= 700
    /\ response_plan[1].primary_action.action_type = "monitor"
    /\ analysis[1].false_positive_score = fp_score[1]
    /\ analysis[1].response_plan = response_plan[1]
    /\ analysis[1].investigation_timeline = timeline[1]

(***************************************************************************)
(* Properties of the handlers and of the in-process store                  *)
(***************************************************************************)
SavedPasses == {p \in Passes : pc[p] = "saved"}

\* everything a caller of the store or an observer can hold
PublishedItems ==
    {threats[i] : i \in 1..Len(threats)}
    \cup UNION {{queue[s][i] : i \in 1..Len(queue[s])} : s \in Subscribers}
    \cup UNION {{received[s][i] : i \in 1..Len(received[s])} : s \in Subscribers}

\* the number of entries of a list that carry the id
Occurrences(list, id) == Len(SelectSeq(list, LAMBDA t : t.id = id))

\* C6: every save is the save of a verdict a pass has returned, made once by
\* the handler of that pass: the store has counted exactly one save per pass
\* whose handler finished, whatever it holds or has published is the verdict
\* of such a pass, and no verdict is stored or delivered twice.  The step in
\* which a pass fails (a rejected request, a cancelled pass) changes nothing
\* of the store, of its subscribers' queues, or of any other pass.
C6_SavedOncePerPass ==
    /\ [](/\ total_count = Cardinality(SavedPasses)
          /\ \A p \in SavedPasses : analysis[p] # None
          /\ \A v \in PublishedItems : \E p \in SavedPasses : v = analysis[p]
          /\ \A p \in Passes :
                /\ Occurrences(threats, p) <= 1
                /\ \A s \in Subscribers : Occurrences(received[s] \o queue[s], p) <= 1)
    /\ [][\A p \in Passes : (pc[p] # "failed" /\ pc'[p] = "failed") =>
              /\ UNCHANGED <<threats, total_count, subscribers, queue, received>>
              /\ \A q \in Passes \ {p} :
                    /\ pc'[q] = pc[q] /\ signal'[q] = signal[q]
                    /\ task'[q] = task[q] /\ results'[q] = results[q]
                    /\ agent_analyses'[q] = agent_analyses[q]
                    /\ fp_score'[q] = fp_score[q] /\ response_plan'[q] = response_plan[q]
                    /\ timeline'[q] = timeline[q] /\ analysis'[q] = analysis[q]]_vars

C6_Witness ==
    /\ pc[1] = "failed" /\ task[1]["priority"] = "cancelled"
    /\ pc[2] = "saved"
    /\ total_count = 1
    /\ threats = <<analysis[2]>>
    /\ received[1] = <<analysis[2]>>

\* C7: on the in-process store with capacity K = MaxThreats, once N > K
\* saves made by concurrently running passes have completed, get_threats
\* with the default (unbounded) limit returns exactly K verdicts and
\* get_total_count returns N.
C7_BoundedListFullCount ==
    LET N == Cardinality(SavedPasses)
    IN (store_kind = "memory" /\ N > MaxThreats) =>
           /\ Len(InMemoryGetThreats(DefaultLimit, 0)) = MaxThreats
           /\ InMemoryGetTotalCount = N

C7_Witness ==
    /\ \A p \in Passes : pc[p] = "saved"
    /\ NumPasses > MaxThreats
    /\ Len(InMemoryGetThreats(DefaultLimit, 0)) = MaxThreats
    /\ InMemoryGetTotalCount = NumPasses
    /\ threats[1] \in {analysis[p] : p \in Passes}

(***************************************************************************)
(* Properties of the store interface (both variants)                       *)
(***************************************************************************)
\* C8: in the in-process store and in the Redis store, get_total_count never
\* decreases from one state to the next, and in every reachable state, also
\* between the commands of a save in progress, it is at least the number of
\* verdicts get_threats returns with an unbounded limit.
C8_TotalCountMonotone ==
    /\ [](GetTotalCountResult >= Len(GetThreatsResult(DefaultLimit, 0)))
    /\ [][GetTotalCountResult' >= GetTotalCountResult]_vars

\* a save in progress on Redis has counted but not yet indexed, the list is
\* full, and the count is ahead of it
C8_Witness ==
    /\ store_kind = "redis"
    /\ \E c \in Savers : saver[c].pc = "zadd"
    /\ Len(GetThreatsResult(DefaultLimit, 0)) = MaxThreats
    /\ GetTotalCountResult = MaxSaves
    /\ GetTotalCountResult > Len(GetThreatsResult(DefaultLimit, 0))

Seen(s) == received[s] \o [i \in 1..Len(queue[s]) |-> Decode(queue[s][i])]

IsSuffix(a, b) ==
    /\ Len(a) <= Len(b)
    /\ a = SubSeq(b, Len(b) - Len(a) + 1, Len(b))

\* whether the queue of s is in the list save_threat walks
Registered(s) == \E i \in 1..Len(subscribers) : subscribers[i] = s

\* the step in which a save_threat call publishes and returns
SaveCompletes ==
    \/ store_kind = "memory" /\ total_count' = total_count + 1
    \/ /\ store_kind = "redis"
       /\ last_op'.op = "save"
       /\ \E c \in Savers : saver[c].pc = "publish" /\ saver'[c].pc = "idle"

\* C10: every subscriber registered when a save publishes is handed that
\* verdict in the same step, whatever the other subscribers do; two
\* subscribers that are both connected have been given the same verdicts (the
\* later one a suffix of the earlier one's), equal to the saved ones; and the
\* step in which one subscriber leaves changes neither the registration nor
\* the queue nor the deliveries of any other subscriber, which can still take
\* what is queued for it.
C10_FanOut ==
    /\ [](\A s, t \in Subscribers :
              /\ (sub_state[s] = "waiting" /\ sub_state[t] = "waiting") =>
                     IsSuffix(Seen(s), Seen(t)) \/ IsSuffix(Seen(t), Seen(s))
              /\ (sub_state[s] = "waiting" /\ queue[s] # <<>>) => ENABLED Deliver(s))
    /\ [][SaveCompletes =>
              \A s \in Subscribers : sub_state[s] = "waiting" =>
                  /\ Len(queue'[s]) = Len(queue[s]) + 1
                  /\ Seen(s)' = Append(Seen(s), last_op'.threat)]_vars
    /\ [][\A u \in Subscribers : (sub_state[u] # "closed" /\ sub_state'[u] = "closed") =>
              \A s \in Subscribers \ {u} :
                  /\ queue'[s] = queue[s] /\ received'[s] = received[s]
                  /\ sub_state'[s] = sub_state[s]
                  /\ (Registered(s) <=> Registered(s)')]_vars

C10_Witness ==
    /\ sub_state[1] = "waiting" /\ sub_state[2] = "waiting"
    /\ sub_state[3] = "closed" /\ received[3] = <<>>
    /\ last_op.op = "save"
    /\ received[1] = <<last_op.threat>>
    /\ received[2] = <<last_op.threat>>
    /\ subscribers = <<1, 2>>

(***************************************************************************)
(* Properties of the streaming endpoint                                    *)
(***************************************************************************)
\* C11: a verdict whose save completes after an observer's snapshot was
\* taken, while that observer is connected, is handed to the observer's
\* stream: it is among what the stream has forwarded or has queued.
C11_NoVerdictMissed ==
    [][SaveCompletes =>
          \A s \in StreamObservers : ws[s].pc \in {"snapshot", "streaming"} =>
              \E i \in 1..Len(Seen(s)') : Seen(s)'[i] = last_op'.threat]_vars

(***************************************************************************)
(* Properties of the shared-broker store across replicas                   *)
(***************************************************************************)
\* C12: on the Redis store, when the save of a caller on any replica
\* publishes, every subscriber subscribed at that moment, on the caller's
\* replica and on every other one, is handed the JSON text of exactly that
\* verdict at the tail of its connection, and what it will yield for it is
\* the saved verdict.
C12_CrossReplicaBroadcast ==
    [][\A c \in Savers :
          (saver[c].pc = "publish" /\ saver'[c].pc = "idle" /\ last_op'.op = "save") =>
              \A r \in 1..NumReplicas, s \in Subscribers :
                  (Replica(s) = r /\ sub_state[s] = "waiting") =>
                      /\ queue'[s] = Append(queue[s], ModelDumpJson(saver[c].threat))
                      /\ ModelValidateJson(queue'[s][Len(queue'[s])]) = saver[c].threat]_vars

C12_Witness ==
    /\ store_kind = "redis"
    /\ Replica(1) # Replica(2)
    /\ sub_state[1] = "waiting" /\ sub_state[2] = "waiting"
    /\ last_op.op = "save"
    /\ received[1] = <<last_op.threat>>
    /\ queue[2] = <<ModelDumpJson(last_op.threat)>>
    /\ r_total = 2

(***************************************************************************)
(* Properties of one subscription                                          *)
(***************************************************************************)
\* C13: a subscription starts with nothing to yield, and from then on the
\* sequence of verdicts it has yielded followed by those it still holds
\* changes in one way only: the verdict of a completing save is added at its
\* end. Yielding moves the oldest held verdict to the end of the yielded ones,
\* so the verdicts saved after subscribing come out in save order, each once.
C13_SaveOrderExactlyOnce ==
    /\ [][\A s \in Subscribers :
              (sub_state[s] = "new" /\ sub_state'[s] = "waiting") => Seen(s)' = <<>>]_vars
    /\ [][\A s \in Subscribers :
              (sub_state[s] = "waiting" /\ sub_state'[s] = "waiting") =>
                  IF SaveCompletes
                  THEN /\ Seen(s)' = Append(Seen(s), last_op'.threat)
                       /\ received'[s] = received[s]
                  ELSE /\ Seen(s)' = Seen(s)
                       /\ Len(received'[s]) \in {Len(received[s]), Len(received[s]) + 1}]_vars

C13_Witness ==
    /\ sub_state[1] = "waiting" /\ sub_state[2] = "waiting"
    /\ Len(received[1]) = 2 /\ queue[1] = <<>>
    /\ received[1][1] # received[1][2]
    /\ received[1][1].created_at < received[1][2].created_at
    /\ received[2] = <<received[1][2]>>
    /\ queue[2] = <<>>

\* C14: on the in-process store a save is never held up by a subscriber:
\* whatever the subscribers have left unread, including everything saved so
\* far, the next save of any verdict can complete at once.
C14_SaveNeverWaits ==
    (store_kind = "memory" /\ total_count < MaxSaves) =>
        \A v \in StoreVerdicts : ENABLED SaveThreat(v)

C14_Witness ==
    /\ store_kind = "memory"
    /\ sub_state[1] = "waiting" /\ received[1] = <<>>
    /\ sub_state[2] = "waiting" /\ Len(received[2]) = 1
    /\ total_count = MaxSaves
    /\ Len(queue[1]) = MaxSaves

\* C15: the step that closes one subscription takes exactly that subscriber
\* out of the registered ones, keeping the others in their order, and changes
\* no other subscriber's held or yielded verdicts, nor the stored verdicts or
\* the total count of either variant; and at all times every subscriber still
\* subscribed is registered, so the saves that follow reach it.
C15_CloseRemovesOnlyOwnQueue ==
    /\ [](\A s \in Subscribers : sub_state[s] = "waiting" => Registered(s))
    /\ [][\A u \in Subscribers : (sub_state[u] # "closed" /\ sub_state'[u] = "closed") =>
              /\ subscribers' = SelectSeq(subscribers, LAMBDA x : x # u)
              /\ \A s \in Subscribers \ {u} :
                     queue'[s] = queue[s] /\ received'[s] = received[s]
              /\ GetThreatsResult(DefaultLimit, 0)' = GetThreatsResult(DefaultLimit, 0)
              /\ GetTotalCountResult' = GetTotalCountResult
              /\ threats' = threats /\ r_threat' = r_threat /\ r_index' = r_index]_vars

C15_Witness ==
    /\ sub_state[1] = "closed" /\ sub_state[2] = "waiting" /\ sub_state[3] = "waiting"
    /\ Len(Seen(1)) = 1
    /\ Len(Seen(2)) = 2 /\ Seen(2)[1] = Seen(1)[1] /\ Seen(2)[1] # Seen(2)[2]
    /\ subscribers = <<2, 3>>
    /\ GetTotalCountResult = 2

(***************************************************************************)
(* Properties relating the two variants                                    *)
(***************************************************************************)
\* C16: starting empty with the same capacity, after any sequence of saves
\* every get_threat, get_threats and get_total_count call returns the same
\* answer from the in-process store and from the Redis store.
C16_SameResults ==
    last_op.op \in {"twin_get", "twin_list", "twin_count"} =>
        last_op.result.memory = last_op.result.redis

(***************************************************************************)
(* Properties of startup and readiness                                     *)
(***************************************************************************)
\* C17: the connection test never ends startup with an exception, and once
\* lifespan serves, the store in use is the Redis store exactly when the
\* connection and the ping both succeeded, and the in-process store for every
\* failure of the test.
C17_RedisOnlyAfterSuccessfulProbe ==
    /\ lifespan_pc # "failed"
    /\ lifespan_pc = "serving" =>
           /\ probe \in ProbeOutcomes
           /\ store_kind = "redis" <=> probe = "ok"
           /\ store_kind = "memory" <=> probe # "ok"
    /\ lifespan_pc \in {"start", "probing"} => store_kind = "none"

C17_Witness ==
    /\ lifespan_pc = "serving"
    /\ probe = "ping_error"
    /\ store_kind = "memory"
    /\ ~broker_up
    /\ total_count = 1

\* C18: a readiness check answers 200 exactly when the coordinator (with its
\* five analyzers and three synthesis engines) and the store are registered
\* and, if the store is the Redis store, the server answers at the time of
\* the check; in every other case it answers 503.
C18_ReadyOnlyWhenAllReady ==
    [][ready_response' # ready_response =>
          (ready_response'.status = 200 <=>
              /\ health_coordinator
              /\ health_store
              /\ store_kind = "redis" => broker_up)]_vars

(***************************************************************************)
(* Properties of the trust scorer and the planner                          *)
(***************************************************************************)
\* C19: for every category, mix of indicators and history, the returned
\* score and confidence lie between 0 and 1 (0 and 1000 thousandths), and
\* the label is fixed by the returned score: likely_false_positive exactly
\* from 0.7 up, needs_review exactly from 0.4 up to but not including 0.7,
\* likely_real_threat exactly below 0.4.
C19_ScoreRangeAndLabel ==
    pc[1] = "scored" =>
        LET f == fp_score[1] IN
        /\ 0 <= f.score /\ f.score <= 1000
        /\ 0 <= f.confidence /\ f.confidence <= 1000
        /\ f.recommendation = "likely_false_positive" <=> f.score >= 700
        /\ f.recommendation = "needs_review" <=> (400 <= f.score /\ f.score < 700)
        /\ f.recommendation = "likely_real_threat" <=> f.score < 400

C19_Witness ==
    /\ pc[1] = "scored"
    /\ signal[1].threat_type = "geo_anomaly"
    /\ fp_score[1].score = 700
    /\ fp_score[1].recommendation = "likely_false_positive"
    /\ Len(fp_score[1].indicators) >= 3

\* C20: whenever the trust score handed to the planner is 0.7 or more, the
\* plan's primary action is monitor at low urgency and there are no
\* secondary actions, whatever the category, the severity and the tenant's
\* automatic-blocking policy.
C20_HighTrustMonitorsOnly ==
    (pc[1] = "planned" /\ fp_score[1].score >= 700) =>
        /\ response_plan[1].primary_action.action_type = "monitor"
        /\ response_plan[1].primary_action.urgency = "low"
        /\ response_plan[1].secondary_actions = <<>>

C20_Witness ==
    /\ pc[1] = "planned"
    /\ fp_score[1].score = 700
    /\ severity[1] = "CRITICAL"
    /\ response_plan[1].primary_action.action_type = "monitor"
    /\ response_plan[1].primary_action.urgency = "low"

(***************************************************************************)
(* Properties of the synthesis                                             *)
(***************************************************************************)
\* C21: every verdict a pass returns with severity CRITICAL has
\* requires_human_review set and carries a review reason (never the absent
\* reason), whichever analyzers failed and whatever the trust score is.
C21_CriticalForcesReview ==
    \A p \in Passes :
        (pc[p] = "analysed" /\ analysis[p].severity = "CRITICAL") =>
            /\ analysis[p].requires_human_review
            /\ analysis[p].review_reason # NoReason

C21_Witness ==
    /\ pc[1] = "analysed"
    /\ analysis[1].severity = "CRITICAL"
    /\ analysis[1].requires_human_review
    /\ analysis[1].review_reason = "Critical severity threat requires human oversight"
    /\ task[1]["historical"] = "raised"

\* C22: the severity of a pass is read from the priority entry when there is
\* one with confidence other than 0, by the first keyword its text holds in
\* the order critical, high, low (substring test, any letter case), and is
\* MEDIUM when there is no entry, when its confidence is 0 and when its text
\* holds none of the keywords.
C22_SeverityFromPriority ==
    pc[1] = "rated" =>
        LET a == agent_analyses[1]
            text == a["priority"].analysis
        IN IF "priority" \notin DOMAIN a \/ a["priority"].confidence = 0
           THEN severity[1] = "MEDIUM"
           ELSE /\ text \in {"critical", "critical high low",
                              "CRITICAL: data exfiltration"} =>
                       severity[1] = "CRITICAL"
                /\ text \in {"high review", "high low", "Highly unusual"} =>
                       severity[1] = "HIGH"
                /\ text \in {"low", "below threshold"} => severity[1] = "LOW"
                /\ text = "plain" => severity[1] = "MEDIUM"
                /\ severity[1] \in {"CRITICAL", "HIGH", "LOW", "MEDIUM"}

C22_Witness ==
    /\ pc[1] = "rated"
    /\ "priority" \in DOMAIN agent_analyses[1]
    /\ agent_analyses[1]["priority"].analysis = "critical high low"
    /\ agent_analyses[1]["priority"].confidence = 1
    /\ severity[1] = "CRITICAL"

(***************************************************************************)
(* Properties of the narrative builder                                     *)
(***************************************************************************)
\* C23: the milestones of a returned timeline are in non-decreasing order
\* of timestamp, for 0 to 5 analyzer results, every jitter of the analysis
\* milestones, every number of secondary actions, with or without a trust
\* verdict and with or without a plan.
C23_TimelineSorted ==
    pc[1] = "narrated" =>
        LET events == timeline[1].events IN
        \A i \in 1..(Len(events) - 1) :
            events[i].timestamp <= events[i + 1].timestamp

C23_Witness ==
    /\ pc[1] = "narrated"
    /\ Len(timeline[1].events) = 21
    /\ Len(response_plan[1].secondary_actions) = MaxSecondary
    /\ timeline[1].events[6].detail = "priority"
    /\ timeline[1].events[10].detail = "historical"
    /\ timeline[1].events[10].timestamp = timeline[1].events[6].timestamp + 50
    /\ timeline[1].events[20].event_type = "action"
    /\ timeline[1].events[21].event_type = "escalation"

(***************************************************************************)
(* Properties of the trust scorer on benign crawlers                       *)
(***************************************************************************)
\* C24: every bot_traffic event whose user agent is a recognized benign
\* crawler (and so matches no suspicious pattern) is scored 0.6 or more and
\* is never labelled likely_real_threat, whatever its request volume, its
\* similar-incident history and the analyzers' confidences.
C24_BenignCrawlerTrusted ==
    (/\ pc[1] = "scored"
     /\ signal[1].threat_type = "bot_traffic"
     /\ UserAgentClass(signal[1].user_agent) = "benign") =>
        /\ fp_score[1].score >= 600
        /\ fp_score[1].recommendation # "likely_real_threat"

(***************************************************************************)
(* Properties of the creation-time index of the shared-broker store        *)
(***************************************************************************)
\* C25: on the Redis store of capacity MaxThreats, whenever no save is in
\* progress the index threats:by_created holds exactly min(MaxThreats,
\* number of distinct verdicts saved) members, and no stored verdict left
\* out of the index was created after one that is in it, also when saves of
\* callers on different replicas interleave command by command.
C25_IndexHoldsMostRecent ==
    (store_kind = "redis" /\ \A c \in Savers : saver[c].pc = "idle") =>
        /\ ZCard(r_index) = Min(MaxThreats, Cardinality(DOMAIN r_threat))
        /\ \A m \in DOMAIN r_index, n \in DOMAIN r_threat \ DOMAIN r_index :
               ModelValidateJson(r_threat[n]).created_at <= r_index[m]

(***************************************************************************)
(* Properties of the in-process store on its own                           *)
(***************************************************************************)
\* C26: on the in-process store of capacity K = max_threats, after any
\* sequence of saves of verdicts with fresh ids, get_threats with the
\* default (unbounded) limit returns exactly the min(number saved, K)
\* verdicts saved last, the newest first; every verdict saved before those
\* has been evicted and get_threat on its id returns nothing, while every
\* verdict still listed is returned by get_threat on its id.
C26_ListIsNewestFirst ==
    LET saved == queue[1]
        n == Len(saved)
        list == InMemoryGetThreats(DefaultLimit, 0)
    IN (store_kind = "memory" /\ subscribers = <<1>>) =>
           /\ n = InMemoryGetTotalCount
           /\ Len(list) = Min(n, max_threats)
           /\ \A i \in 1..Len(list) : list[i] = saved[n - i + 1]
           /\ \A j \in 1..n :
                  InMemoryGetThreat(saved[j].id) =
                      IF j <= n - max_threats THEN None ELSE saved[j]

\* four saves into a store of capacity 2: the two saved last are listed, the
\* newest first although it was created earlier, and the two oldest are gone
C26_Witness ==
    /\ store_kind = "memory" /\ subscribers = <<1>>
    /\ max_threats = 2
    /\ Len(queue[1]) = 4
    /\ InMemoryGetThreats(DefaultLimit, 0) = <<queue[1][4], queue[1][3]>>
    /\ queue[1][4].created_at < queue[1][3].created_at
    /\ InMemoryGetThreat(queue[1][1].id) = None
    /\ InMemoryGetThreat(queue[1][2].id) = None
    /\ InMemoryGetThreat(queue[1][3].id) = queue[1][3]

(***************************************************************************)
(* Properties of passes sharing one coordinator                           *)
(***************************************************************************)
\* C27: of the passes running concurrently on one CoordinatorAgent, every
\* verdict returned holds the event of its own pass, the analyzer results
\* gathered for it, and the trust verdict, the severity, the plan and the
\* timeline computed from these alone: the timeline is the one a builder
\* used by no other pass would have returned, although all passes call the
\* one TimelineBuilder, which keeps its milestones in instance fields.
C27_NoSharedWorkingState ==
    \A p \in Passes :
        analysis[p] # None =>
            LET v == analysis[p] IN
            /\ v.signal = signal[p]
            /\ v.agent_analyses = agent_analyses[p]
            /\ v.false_positive_score =
                   FpAnalyze(v.signal, v.agent_analyses, SimilarIncidents(v.signal))
            /\ v.severity = DetermineSeverity(v.agent_analyses)
            /\ v.response_plan =
                   GenerateResponsePlan(v.signal, v.severity, v.false_positive_score,
                                        CustomerConfig(v.signal))
            /\ \E jitter \in Jitters :
                   v.investigation_timeline =
                       BuildTimeline(v.signal, v.agent_analyses, v.false_positive_score,
                                     v.response_plan, v.severity, jitter)

\* two passes on different events have both returned; the fields of the
\* builder hold the milestones of pass 2, the last to call it, and the
\* verdict of pass 1 holds the milestones of its own event
C27_Witness ==
    /\ analysis[1] # None /\ analysis[2] # None
    /\ signal[1].source_ip # signal[2].source_ip
    /\ timeline_builder.events[1].detail = signal[2].source_ip
    /\ analysis[1].investigation_timeline.events[1].detail = signal[1].source_ip
    /\ analysis[2].investigation_timeline.events[1].detail = signal[2].source_ip
    /\ Len(analysis[1].investigation_timeline.events) = Len(timeline_builder.events)

(***************************************************************************)
(* Properties of the approval flags of planned actions                     *)
(***************************************************************************)
\* C28: in every plan generate_response_plan returns, a block_ip action is
\* auto_executable exactly when the customer_config handed to the planner
\* is present and has auto_block_enabled set, so with the setting off or no
\* customer_config a block_ip action requires approval; and in every
\* action of the plan requires_approval is the negation of auto_executable.
C28_BlockNeedsPolicy ==
    \A p \in Passes :
        response_plan[p] # None =>
            LET config == customer_config[p]
                actions == <<response_plan[p].primary_action>>
                               \o response_plan[p].secondary_actions
            IN \A i \in 1..Len(actions) :
                   /\ actions[i].action_type = "block_ip" =>
                          (actions[i].auto_executable <=>
                               (config # None /\ config.auto_block_enabled))
                   /\ actions[i].requires_approval <=> ~actions[i].auto_executable

\* a critical device compromise planned under a policy with automatic
\* blocking: the quarantine still requires approval, the block does not
C28_Witness ==
    /\ pc[1] = "planned"
    /\ customer_config[1] # None /\ customer_config[1].auto_block_enabled
    /\ response_plan[1].primary_action.action_type = "quarantine"
    /\ response_plan[1].primary_action.requires_approval
    /\ Len(response_plan[1].secondary_actions) = 2
    /\ response_plan[1].secondary_actions[2].action_type = "block_ip"
    /\ response_plan[1].secondary_actions[2].auto_executable
    /\ ~response_plan[1].secondary_actions[2].requires_approval

(***************************************************************************)
(* Properties of a save that fails on the Redis store                      *)
(***************************************************************************)
\* C29: on the Redis store a save that fails at a command leaves the
\* counter, the threat:{id} keys and the index as they were before it; in
\* particular, whenever no save is in progress and no verdict is stored,
\* get_total_count returns 0: it never counts a verdict that was not
\* persisted.
C29_FailedSaveNotCounted ==
    (/\ store_kind = "redis"
     /\ \A c \in Savers : saver[c].pc = "idle"
     /\ DOMAIN r_threat = {}) =>
        /\ RedisGetTotalCount = 0
        /\ r_index = <<>>

(***************************************************************************)
(* Properties of the order of storing and notifying (both variants)        *)
(***************************************************************************)
\* C30: in the in-process store and in the Redis store, of capacity 1 or
\* more, in every step that puts a verdict on a subscriber's queue or
\* pub/sub connection, get_threat on the id of that verdict returns, in the
\* state the step leads to, the verdict as the subscriber will be handed it,
\* and get_total_count returns at least 1 and at least the number of
\* verdicts that subscriber has been handed so far.
C30_PersistBeforePublish ==
    [][\A s \in Subscribers :
           Len(queue'[s]) > Len(queue[s]) =>
               LET handed == Decode(queue'[s][Len(queue'[s])])
               IN /\ max_threats >= 1
                  /\ \E id \in VerdictIds :
                         id = handed.id /\ GetThreatResult(id)' = handed
                  /\ GetTotalCountResult' >= 1
                  /\ GetTotalCountResult' >= Len(received'[s]) + Len(queue'[s])]_vars

\* the Redis store has published its second verdict to a subscriber that has
\* not yet read the first; both are counted and the one published last is
\* what get_threat returns for its id
C30_Witness ==
    /\ store_kind = "redis"
    /\ \A c \in Savers : saver[c].pc = "idle"
    /\ last_op.op = "save"
    /\ Len(queue[1]) = 2
    /\ Decode(queue[1][2]) = last_op.threat
    /\ GetThreatResult(last_op.id) = last_op.threat
    /\ GetTotalCountResult = 2

====
